---- MODULE Spec2Model ----
(***************************************************************************)
(* Warehouse-management front end: the list screens (ItemMaster, Inbound,  *)
(* PickPack, Dispatch, Reports) bound to server-paginated endpoints, and   *)
(* the putaway auto-placement of the Inbound screen.                       *)
(*                                                                         *)
(* A React event handler, the render it causes and the effects of that     *)
(* render are one action: the root is created with createRoot              *)
(* (src/src/main.tsx:7), so the state updates of one handler, timer or     *)
(* promise callback are batched into one render.  A fetch is two steps:    *)
(* the request is issued (and answered by the server from its data at that *)
(* moment), and later its response or its failure reaches the screen, in   *)
(* any order relative to the other requests.                               *)
(***************************************************************************)
EXTENDS Integers, Sequences, FiniteSets, TLC

VARIABLES
  \* ---- one list screen (useState cells of the component)
  screen,          \* which screen is mounted
  searchTerm,      \* text of the search box
  debouncedSearch, \* committed search text
  timerPending,    \* the 400 ms debounce timer is armed
  currentPage,     \* request page number
  perPage,         \* request page size
  month,           \* Reports: month filter
  typeFilter,      \* Reports: type filter
  sort,            \* Reports: sort state
  activeTab,       \* PickPack / Dispatch: tab
  items,           \* displayed rows, with the response they came from
  meta,            \* displayed pagination metadata, with its response
  isLoading,
  isSaving,
  toast,           \* the notification the last step raised
  inflight,        \* list requests issued and not yet completed
  puts,            \* state-transition requests issued and not yet completed
  nextRid,         \* sequence number of the next list request
  nPuts,           \* number of state-transition requests issued
  srv,             \* server side: status of every order
  burst,           \* search-text changes that armed the last timer (0, 1, 2 = more)
  envelope,        \* server side: the shape of the list endpoint's answers
  \* ---- putaway modal of the Inbound screen
  selectedOrder,   \* the order whose detail is shown (NoOrder: none)
  activeItem,      \* the item being put away; the modal is open while it is set
  racks,           \* racks of the order's warehouse, as displayed
  bins,            \* bins of the selected rack, as displayed
  selectedRackId,
  selectedBinId,
  selectedBy,      \* the invocation that made the selection (0: none)
  isLoadingRacks,
  isLoadingBins,
  pToast,          \* the notification the last step of the modal raised
  srvRacks,        \* server side: the racks of the order's warehouse
  scans,           \* the invocations of openPutawayModal that are still running
  nScans,          \* invocations started so far
  lastScan,        \* the step an invocation took last, and what the server had answered
  \* ---- state transitions of Inbound, PickPack and Dispatch
  isModalOpen,     \* PickPack / Dispatch: the order dialog is open
  driverName,      \* Dispatch: the driver field of the dialog
  vehicleName,     \* Dispatch: the vehicle field of the dialog
  srvItems,        \* server side: the status of the items of the inbound orders
  \* ---- the usePagination hook
  localItems,      \* the array handed to usePagination
  \* ---- authentication (useAuth, the interceptors of apiClient)
  storedToken,     \* localStorage 'auth_token' (NoToken: absent)
  storedUser,      \* localStorage 'auth_user' (NoUser: absent)
  authState,       \* the state cell of useAuth
  location,        \* the path of the page
  unloading,       \* window.location.href was assigned: the document is being replaced
  calls,           \* API calls in flight, with the bearer they carry and the answer to come
  nCalls,          \* API calls issued so far
  handled,         \* the calls whose answer the interceptors have processed
  revoked,         \* the tokens a processed 401 has invalidated for this client
  \* ---- Inbound: the closure of the memoised fetchOrders
  fetchSelected,   \* the selectedOrder that the current fetchOrders closes over
  \* ---- the router
  navFrom,         \* location.state.from: the path RequireAuth saved (NoFrom: none)
  \* ---- MobileScanner
  mode,            \* 'HOME' | 'SCANNING' | 'RESULT'
  scanResult,      \* the code shown on the RESULT page
  scanTimers,      \* the scans whose setTimeout callback has not run yet
  nStarts,         \* scans started so far
  scanToasts,      \* per scan: the 'Barcode Scanned Successfully' toasts shown
  lastToast,       \* the latest toast of the scanner
  \* ---- ItemMaster: the dispatch-request dialog
  cart,            \* the lines of the cart: stock id, the stock record's quantity, quantity
  listedQty,       \* per stock id: the quantity of the stock record in the items state
  \* ---- ItemMaster: the inbound-application dialog
  selectedWarehouseId, \* the warehouse of the application (NoWarehouse: '')
  warehouseRacks,  \* the racks offered by the rack selects
  rackCalls,       \* GET /racks requests in flight: the warehouse asked for, the outcome
  nRackCalls,      \* GET /racks requests issued so far
  inboundList,     \* the entries of the application: item, rack_id (NoRack: '')
  chosenSince,     \* the items whose rack_id was chosen after the last warehouse change
  racksToast,      \* 'Failed to load racks' was shown since the dialog was opened
  \* ---- PickPack: bulk selection
  selectedIds,     \* the ids of the checked orders
  isBulkProcessing,
  bulks,           \* bulk-start-picking requests in flight
  nBulks           \* bulk requests issued so far

listVars == <<screen, searchTerm, debouncedSearch, timerPending, currentPage,
              perPage, month, typeFilter, sort, activeTab, items, meta,
              isLoading, isSaving, toast, inflight, puts, nextRid, nPuts, srv,
              burst, envelope>>

putVars == <<srvRacks, selectedOrder, activeItem, racks, bins, selectedRackId,
             selectedBinId, selectedBy,
             isLoadingRacks, isLoadingBins, pToast, scans, nScans, lastScan>>

actVars == <<isModalOpen, driverName, vehicleName, srvItems>>

hookVars == <<localItems>>

authVars == <<storedToken, storedUser, authState, location, unloading, calls,
              nCalls, handled, revoked>>

bulkVars == <<selectedIds, isBulkProcessing, bulks, nBulks>>

\* the state of the features beside the list, the dialogs and the session
routeVars == <<navFrom>>

scanVars == <<mode, scanResult, scanTimers, nStarts, scanToasts, lastToast>>

\* the features that are not list screens
cartVars == <<cart, listedQty>>

rackVars == <<selectedWarehouseId, warehouseRacks, rackCalls, nRackCalls,
              inboundList, chosenSince, racksToast>>

miscVars == <<scanVars, cartVars, rackVars>>

sideVars == <<bulkVars, routeVars, miscVars>>

vars == <<listVars, putVars, actVars, hookVars, authVars, fetchSelected, sideVars>>

----------------------------------------------------------------------------
(* Bounds of the model *)

\* scans the user starts on the scanner
MaxStarts == 4

\* stock records of the listed items, and the largest quantity of one
MaxStocks == 2
MaxQty == 2

StockIds == 1..MaxStocks

\* warehouses, GET /racks requests and catalogue items of the inbound dialog
MaxWarehouses == 2
MaxRackCalls == 3
MaxEntries == 2

\* list requests one behaviour may issue
MaxRequests == 3
\* state-transition requests one behaviour may issue
MaxPuts == 1
\* rows the server holds for the empty search / the unfiltered report
TotalAll == 11
\* rows the server holds for the search text "a" / a filtered report
TotalFiltered == 4

(* Program constants *)

Null == -1

Screens == {"ItemMaster", "Inbound", "PickPack", "Dispatch", "Reports"}

Texts == {"", "a", "b"}

PerPageOptions == {5, 10, 25, 50, 100}

\* the page sizes the user picks among the options
PerPagePicks == {5, 10, 25}

Months == {"2026-11", "2026-10"}

TypeFilters == {"all", "inbound"}

SortColumns == {"r_order_date", "r_qty"}

NoSort == [column |-> "none", direction |-> "none"]

NoToast == ""

\* useState<... | null>(null) of selectedOrder and of activeItem
NoOrder == [id |-> Null, status |-> "none", items |-> <<>>]

NoItem == [id |-> Null, quantity |-> 0, status |-> "none"]

Min(a, b) == IF a < b THEN a ELSE b

Max(a, b) == IF a > b THEN a ELSE b

CeilDiv(a, b) == (a + b - 1) \div b


----------------------------------------------------------------------------
(* The server: the list endpoints' envelope *)

HasDebounce(s) == s # "Reports"

DefaultPerPage(s) == IF s = "Reports" THEN 25 ELSE 10

DefaultTab(s) == IF s = "PickPack" THEN "PICKING"
                 ELSE IF s = "Dispatch" THEN "QUEUE" ELSE "none"

\* the request parameters fetchItems / fetchOrders / fetchData close over
Query(ds, page, pp, m, tf, so) ==
  [search |-> ds, page |-> page, perPage |-> pp, month |-> m, type |-> tf, sort |-> so]

\* number of rows of the server that match a query
ServerTotal(s, q) ==
  IF s = "Reports"
  THEN IF q.month # "2026-11" THEN 0
       ELSE IF q.type = "all" THEN TotalAll ELSE TotalFiltered
  ELSE IF q.search = "" THEN TotalAll
       ELSE IF q.search = "a" THEN TotalFiltered ELSE 0

\* the k-th matching row in the order the query asks for
RowIdAt(q, total, k) == IF q.sort.direction = "desc" THEN total + 1 - k ELSE k

Row(stat, id) == [id |-> id, status |-> stat[id]]

\* a length-aware paginator's answer: data, current_page, last_page, per_page,
\* total, from, to
Paginated(s, q, stat) ==
  LET total   == ServerTotal(s, q)
      last    == Max(1, CeilDiv(total, q.perPage))
      inRange == total > 0 /\ q.page <= last
      from    == IF inRange THEN (q.page - 1) * q.perPage + 1 ELSE Null
      to      == IF inRange THEN Min(q.page * q.perPage, total) ELSE Null
  IN [shape |-> "paginated",
      data |-> IF inRange
               THEN [k \in 1..(to - from + 1) |-> Row(stat, RowIdAt(q, total, from + k - 1))]
               ELSE <<>>,
      current_page |-> q.page, last_page |-> last, per_page |-> q.perPage,
      total |-> total, from |-> from, to |-> to]

\* a bare array of all matching rows (the second envelope shape Reports accepts)
Plain(s, q, stat) ==
  LET total == ServerTotal(s, q)
  IN [shape |-> "plain",
      data |-> [k \in 1..total |-> Row(stat, RowIdAt(q, total, k))],
      current_page |-> 0, last_page |-> 0, per_page |-> 0,
      total |-> 0, from |-> Null, to |-> Null]

\* Inbound: the orders whose detail the user opens, and the items of an order
InboundOrders == {1, 2}

InboundItems == {1, 2}

\* the expected quantity of the items of an order
Quantities == <<5, 8>>

\* the items array of an inbound order
ItemsOf(stock, id) ==
  IF id \in InboundOrders
  THEN [k \in InboundItems |-> [id |-> k, quantity |-> Quantities[k],
                                status |-> stock[id][k]]]
  ELSE <<>>

\* the rows of /inbound-applications carry the items of the order
Stocked(s, resp, stock) ==
  IF s # "Inbound" THEN resp
  ELSE [resp EXCEPT !.data =
          [k \in 1..Len(resp.data) |->
             [id |-> resp.data[k].id, status |-> resp.data[k].status,
              items |-> ItemsOf(stock, resp.data[k].id)]]]

Shapes(s) == IF s = "Reports" THEN {"paginated", "plain"} ELSE {"paginated"}

ServerResponse(s, q, stat, shape) ==
  IF shape = "plain" THEN Plain(s, q, stat) ELSE Paginated(s, q, stat)

----------------------------------------------------------------------------
(* The list screen *)

InitialMeta == [rid |-> 0, currentPage |-> 1, lastPage |-> 1, perPage |-> 10,
                total |-> 0, from |-> Null, to |-> Null]

ReportsInitialMeta == [InitialMeta EXCEPT !.perPage = 25]

InitialItems == [rid |-> 0, rows |-> <<>>]

FetchErrorToast(s) ==
  CASE s = "ItemMaster" -> "Failed to load items"
    [] s = "Inbound"    -> "Failed to load inbound orders"
    [] s = "PickPack"   -> "Failed to load dispatch orders"
    [] s = "Dispatch"   -> "Failed to load dispatch orders"
    [] s = "Reports"    -> "Failed to load report"

\* the query the current render's fetch callback closes over
CurrentQuery == Query(debouncedSearch, currentPage, perPage, month, typeFilter, sort)

\* a request record: its sequence number, what it asked, what the server answered
Request(rid, q, shape, sel) ==
  [rid |-> rid, q |-> q, sel |-> sel,
   resp |-> Stocked(screen, ServerResponse(screen, q, srv, shape), srvItems)]

\* list requests one behaviour of a screen may issue: Reports, whose sort takes
\* three clicks to come round and whose filters issue two requests per change,
\* may issue two more
RequestCap(s) == IF s = "Reports" THEN MaxRequests + 2 ELSE MaxRequests

\* fetchX(): setIsLoading(true) and the GET, for each query of qs in order,
\* by a callback that closes over the selected order sel
IssueAs(qs, sel) ==
  /\ nextRid + Len(qs) - 1 <= RequestCap(screen)
  /\ inflight' = inflight \cup
       {Request(nextRid + k - 1, qs[k], envelope, sel) : k \in 1..Len(qs)}
  /\ nextRid' = nextRid + Len(qs)
  /\ isLoading' = IF Len(qs) > 0 THEN TRUE ELSE isLoading

\* a call of the current callback
Issue(qs) == IssueAs(qs, fetchSelected)

\* useCallback(..., [currentPage, perPage, debouncedSearch]): a render in
\* which a dependency changed makes a new callback, which closes over the
\* selectedOrder of that render; only the fetchOrders of Inbound reads it
Recreated(changed) ==
  IF screen = "Inbound" /\ changed THEN selectedOrder ELSE fetchSelected

\* an effect that would run after every render
FetchEveryRender(q) ==
  /\ IssueAs(<<q>>, Recreated(q # CurrentQuery))
  /\ fetchSelected' = Recreated(q # CurrentQuery)

\* useEffect(() => { fetchX(); }, [fetchX]): the callback changes identity, and
\* the effect runs, when one of its dependencies changed in this render
FetchEffect(q) ==
  /\ IssueAs(IF q # CurrentQuery THEN <<q>> ELSE <<>>, Recreated(q # CurrentQuery))
  /\ fetchSelected' = Recreated(q # CurrentQuery)

Bump(b) == IF b < 2 THEN b + 1 ELSE 2

\* a dialog (the order dialog, the putaway modal) covers the screen: the
\* controls behind it cannot be reached
Covered == isModalOpen \/ activeItem # NoItem

\* onChange={(e) => setSearchTerm(e.target.value)}: the debounce effect clears
\* the armed timer and arms a new one; nothing else changes
TypeSearch(t) ==
  /\ HasDebounce(screen)
  /\ ~Covered
  /\ t # searchTerm
  /\ searchTerm' = t
  /\ timerPending' = TRUE
  /\ burst' = IF timerPending THEN Bump(burst) ELSE 1
  /\ toast' = NoToast
  /\ UNCHANGED <<putVars, actVars, envelope, hookVars, authVars, sideVars, fetchSelected, screen, debouncedSearch, currentPage, perPage, month, typeFilter,
                 sort, activeTab, items, meta, isLoading, isSaving, inflight,
                 puts, nextRid, nPuts, srv>>

\* a timer callback that would commit the text only
PageKept(page) == page

\* the request page after the timer callback: setCurrentPage(1)
PageAfterCommit(page) == 1

\* the timer callback: setDebouncedSearch(searchTerm); setCurrentPage(1)
DebounceFire ==
  /\ HasDebounce(screen)
  /\ timerPending
  /\ timerPending' = FALSE
  /\ debouncedSearch' = searchTerm
  /\ currentPage' = PageAfterCommit(currentPage)
  /\ FetchEffect(Query(searchTerm, currentPage', perPage, month, typeFilter, sort))
  /\ UNCHANGED burst
  /\ toast' = NoToast
  /\ UNCHANGED <<putVars, actVars, envelope, hookVars, authVars, sideVars, screen, searchTerm, perPage, month, typeFilter, sort, activeTab,
                 items, meta, isSaving, puts, nPuts, srv>>

\* PickPack
PICKING_STATUSES == {"pending", "picking"}

PACKING_STATUSES == {"picked", "packing", "packed"}

\* the rows the list of the screen shows (client-side tab filter)
FilteredRows ==
  LET keep(r) ==
        CASE screen = "PickPack" /\ activeTab = "PICKING" -> r.status \in PICKING_STATUSES
          [] screen = "PickPack" /\ activeTab = "PACKING" -> r.status \in PACKING_STATUSES
          [] screen = "Dispatch" /\ activeTab = "QUEUE"   -> r.status = "packed"
          [] screen = "Dispatch" /\ activeTab = "HISTORY" -> r.status = "dispatched"
          [] OTHER -> TRUE
  IN SelectSeq(items.rows, keep)

\* {meta.total > 0 && <PaginationControls .../>}; Dispatch shows them when
\* its filtered list is not empty
ControlsShown ==
  IF screen = "Dispatch" THEN Len(FilteredRows) > 0 ELSE meta.total > 0

\* the isLoading prop of PaginationControls (Dispatch passes none: default false)
ControlsLoading == IF screen = "Dispatch" THEN FALSE ELSE isLoading

canGoPrevious == meta.currentPage > 1

canGoNext == meta.currentPage < meta.lastPage

\* the page numbers the four enabled buttons pass to onPageChange
PageButtons ==
  (IF canGoPrevious THEN {1, meta.currentPage - 1} ELSE {}) \cup
  (IF canGoNext THEN {meta.currentPage + 1, meta.lastPage} ELSE {})

\* onPageChange={setCurrentPage}
PageChange(n) ==
  /\ ControlsShown
  /\ ~ControlsLoading
  /\ ~Covered
  /\ n \in PageButtons
  /\ currentPage' = n
  /\ FetchEffect(Query(debouncedSearch, n, perPage, month, typeFilter, sort))
  /\ toast' = NoToast
  /\ UNCHANGED <<putVars, actVars, envelope, hookVars, authVars, sideVars, screen, searchTerm, debouncedSearch, timerPending, perPage, month,
                 typeFilter, sort, activeTab, items, meta, isSaving, puts,
                 nPuts, srv, burst>>

\* the request page after the per-page handler of a screen:
\* (pp) => { setPerPage(pp); setCurrentPage(1); }, and setPerPage alone on Dispatch
PageAfterPerPage(s, page) == IF s = "Dispatch" THEN page ELSE 1

\* onValueChange of the per-page Select: a value other than the displayed one
PerPageChange(n) ==
  /\ ControlsShown
  /\ ~ControlsLoading
  /\ ~Covered
  /\ n \in PerPageOptions \cap PerPagePicks
  /\ n # meta.perPage
  /\ perPage' = n
  /\ currentPage' = PageAfterPerPage(screen, currentPage)
  /\ FetchEffect(Query(debouncedSearch, currentPage', n, month, typeFilter, sort))
  /\ toast' = NoToast
  /\ UNCHANGED <<putVars, actVars, envelope, hookVars, authVars, sideVars, screen, searchTerm, debouncedSearch, timerPending, month,
                 typeFilter, sort, activeTab, items, meta, isSaving, puts,
                 nPuts, srv, burst>>

\* what a screen makes of a response: the rows and the metadata it will display
ParseResponse(s, resp) ==
  IF s = "Reports" /\ ~(resp.shape = "paginated" /\ resp.current_page # 0)
  THEN LET n == Len(resp.data)
       IN [rows |-> resp.data,
           meta |-> [currentPage |-> 1, lastPage |-> 1, perPage |-> n, total |-> n,
                     from |-> IF n > 0 THEN 1 ELSE Null,
                     to |-> IF n > 0 THEN n ELSE Null]]
  ELSE [rows |-> resp.data,
        meta |-> [currentPage |-> resp.current_page, lastPage |-> resp.last_page,
                  perPage |-> resp.per_page, total |-> resp.total,
                  from |-> resp.from, to |-> resp.to]]

Tagged(rid, m) ==
  [rid |-> rid, currentPage |-> m.currentPage, lastPage |-> m.lastPage,
   perPage |-> m.perPage, total |-> m.total, from |-> m.from, to |-> m.to]

\* a completion that would leave the loading flag alone
LoadingLeft(l) == l

\* finally { setIsLoading(false); }
LoadingAfterFinally(l) == FALSE

\* the try branch of fetchX after the await, then finally
ApplySuccess(r) ==
  LET parsed == ParseResponse(screen, r.resp)
  IN /\ items' = [rid |-> r.rid, rows |-> parsed.rows]
     /\ meta' = Tagged(r.rid, parsed.meta)
     /\ isLoading' = LoadingAfterFinally(isLoading)
     /\ toast' = NoToast

\* if (selectedOrder) { const fresh = list.find(o => o.id === selectedOrder.id);
\*                      if (fresh) setSelectedOrder(fresh); }
\* with the selectedOrder of the callback's closure
KeptInSync(s, sel, list, current) ==
  IF s = "Inbound" /\ sel # NoOrder /\ \E k \in 1..Len(list) : list[k].id = sel.id
  THEN list[CHOOSE k \in 1..Len(list) :
              list[k].id = sel.id /\ \A j \in 1..(k - 1) : list[j].id # sel.id]
  ELSE current

FetchSuccess(r) ==
  /\ r \in inflight
  /\ inflight' = inflight \ {r}
  /\ ApplySuccess(r)
  /\ selectedOrder' = KeptInSync(screen, r.sel, ParseResponse(screen, r.resp).rows,
                                 selectedOrder)
  /\ UNCHANGED <<srvRacks, activeItem, racks, bins, selectedRackId, selectedBinId,
                 selectedBy, isLoadingRacks, isLoadingBins, pToast, scans, nScans,
                 lastScan>>
  /\ UNCHANGED <<actVars, envelope, hookVars, authVars, sideVars, fetchSelected, screen, searchTerm, debouncedSearch, timerPending, currentPage,
                 perPage, month, typeFilter, sort, activeTab, isSaving, puts,
                 nextRid, nPuts, srv, burst>>

\* the rows a screen displays after a failed fetch: Reports calls setRows([])
ItemsAfterFailure(s, it) == IF s = "Reports" THEN [rid |-> 0, rows |-> <<>>] ELSE it

\* the catch branch of fetchX (network error, timeout, error status), then finally
FetchFail(r) ==
  /\ r \in inflight
  /\ inflight' = inflight \ {r}
  /\ toast' = FetchErrorToast(screen)
  /\ items' = ItemsAfterFailure(screen, items)
  /\ isLoading' = LoadingAfterFinally(isLoading)
  /\ UNCHANGED <<putVars, actVars, envelope, hookVars, authVars, sideVars, fetchSelected, screen, searchTerm, debouncedSearch, timerPending, currentPage,
                 perPage, month, typeFilter, sort, activeTab, meta, isSaving, puts,
                 nextRid, nPuts, srv, burst>>

\* a toggle between ascending and descending only
TwoStateSort(prev, column) ==
  IF prev.column = column /\ prev.direction = "asc"
  THEN [column |-> column, direction |-> "desc"]
  ELSE [column |-> column, direction |-> "asc"]

\* Reports: the three-state toggle of one column
NextSort(prev, column) ==
  IF prev.column = column
  THEN IF prev.direction = "asc" THEN [column |-> column, direction |-> "desc"]
       ELSE NoSort
  ELSE [column |-> column, direction |-> "asc"]

\* Reports: col.sortable && toggleSort(col.key)
ToggleSort(column) ==
  /\ screen = "Reports"
  /\ column \in SortColumns
  /\ sort' = NextSort(sort, column)
  /\ currentPage' = 1
  /\ FetchEffect(Query(debouncedSearch, 1, perPage, month, typeFilter, sort'))
  /\ toast' = NoToast
  /\ UNCHANGED <<putVars, actVars, envelope, hookVars, authVars, sideVars, screen, searchTerm, debouncedSearch, timerPending, perPage, month,
                 typeFilter, activeTab, items, meta, isSaving, puts, nPuts,
                 srv, burst>>

\* Reports: setMonth / setTypeFilter.  In the render with the new filter the
\* page-reset effect calls setCurrentPage(1) and the fetch effect, whose
\* callback already changed, issues a request with the page of that render; the
\* render with page 1 then issues a second one when the page was not 1.
FilterChange(m, tf) ==
  /\ screen = "Reports"
  /\ m \in Months /\ tf \in TypeFilters
  /\ (m # month /\ tf = typeFilter) \/ (m = month /\ tf # typeFilter)
  /\ month' = m
  /\ typeFilter' = tf
  /\ currentPage' = 1
  /\ Issue(<<Query(debouncedSearch, currentPage, perPage, m, tf, sort)>> \o
           (IF currentPage # 1
            THEN <<Query(debouncedSearch, 1, perPage, m, tf, sort)>> ELSE <<>>))
  /\ toast' = NoToast
  /\ UNCHANGED <<putVars, actVars, envelope, hookVars, authVars, sideVars, fetchSelected, screen, searchTerm, debouncedSearch, timerPending, perPage, sort,
                 activeTab, items, meta, isSaving, puts, nPuts, srv, burst>>

\* Reports: the refresh button, onClick={fetchData}
Refresh ==
  /\ screen = "Reports"
  /\ Issue(<<CurrentQuery>>)
  /\ toast' = NoToast
  /\ UNCHANGED <<putVars, actVars, envelope, hookVars, authVars, sideVars, fetchSelected, screen, searchTerm, debouncedSearch, timerPending, currentPage,
                 perPage, month, typeFilter, sort, activeTab, items, meta, isSaving,
                 puts, nPuts, srv, burst>>

Tabs(s) == IF s = "PickPack" THEN {"PICKING", "PACKING"}
           ELSE IF s = "Dispatch" THEN {"QUEUE", "HISTORY"} ELSE {}

\* PickPack / Dispatch: setActiveTab; the tab effect calls setCurrentPage(1)
\* and setSelectedOrder(null)
SwitchTab(t) ==
  /\ t \in Tabs(screen)
  /\ ~Covered
  /\ t # activeTab
  /\ activeTab' = t
  /\ currentPage' = 1
  /\ selectedOrder' = NoOrder
  /\ FetchEffect(Query(debouncedSearch, 1, perPage, month, typeFilter, sort))
  /\ toast' = NoToast
  /\ UNCHANGED <<srvRacks, activeItem, racks, bins, selectedRackId, selectedBinId,
                 selectedBy, isLoadingRacks, isLoadingBins, pToast, scans, nScans,
                 lastScan>>
  /\ UNCHANGED <<actVars, envelope, hookVars, authVars, sideVars, screen, searchTerm, debouncedSearch, timerPending, perPage, month,
                 typeFilter, sort, items, meta, isSaving, puts, nPuts, srv,
                 burst>>

\* orders the user acts on
ActOrders == {1, 2, 3, 4}

\* the status the transition button of an order asks for ("" when it has none)
ButtonStatus(s, tab, status) ==
  CASE s = "PickPack" /\ tab = "PICKING" /\ status # "picked" ->
         IF status = "pending" THEN "picking" ELSE "picked"
    [] s = "PickPack" /\ tab = "PACKING" /\ status # "packed" ->
         IF status = "picked" THEN "packing" ELSE "packed"
    [] s = "Dispatch" /\ status = "packed" -> "dispatched"
    [] OTHER -> ""

\* the list is replaced by a skeleton / spinner while loading
ListShown ==
  IF screen = "Dispatch" THEN ~(isLoading /\ Len(items.rows) = 0) ELSE ~isLoading

\* the row of an order is clicked (PickPack), or its Dispatch Order button
\* (Dispatch, packed orders): the order dialog opens on it
OpenOrder(row) ==
  /\ screen \in {"PickPack", "Dispatch"}
  /\ ListShown
  /\ ~Covered
  /\ \E k \in 1..Len(FilteredRows) : FilteredRows[k] = row
  /\ row.id \in ActOrders
  /\ screen = "Dispatch" => row.status = "packed"
  /\ selectedOrder' = row
  /\ isModalOpen' = TRUE
  /\ driverName' = ""
  /\ vehicleName' = ""
  /\ toast' = NoToast
  /\ UNCHANGED <<envelope, hookVars, authVars, sideVars, fetchSelected, screen, searchTerm, debouncedSearch, timerPending,
                 currentPage, perPage, month, typeFilter, sort, activeTab, items,
                 meta, isLoading, isSaving, inflight, puts, nextRid, nPuts, srv,
                 burst>>
  /\ UNCHANGED <<srvItems, srvRacks, activeItem, racks, bins, selectedRackId,
                 selectedBinId, selectedBy, isLoadingRacks, isLoadingBins, pToast,
                 scans, nScans, lastScan>>

\* onOpenChange(false), and the Cancel button of the Dispatch dialog
CloseModal ==
  /\ isModalOpen
  /\ isModalOpen' = FALSE
  /\ toast' = NoToast
  /\ UNCHANGED <<putVars, driverName, vehicleName, srvItems, envelope, hookVars, authVars, sideVars, fetchSelected, screen,
                 searchTerm, debouncedSearch, timerPending, currentPage, perPage,
                 month, typeFilter, sort, activeTab, items, meta, isLoading,
                 isSaving, inflight, puts, nextRid, nPuts, srv, burst>>

\* what the user types into the driver and vehicle fields
Names == {"", " ", "n"}

\* String.prototype.trim of a name
Trim(n) == IF n = " " THEN "" ELSE n

\* Dispatch: onChange of the driver and vehicle fields
TypeDetails(d, v) ==
  /\ screen = "Dispatch"
  /\ isModalOpen /\ selectedOrder # NoOrder
  /\ <<d, v>> # <<driverName, vehicleName>>
  /\ driverName' = d
  /\ vehicleName' = v
  /\ toast' = NoToast
  /\ UNCHANGED <<putVars, isModalOpen, srvItems, envelope, hookVars, authVars, sideVars, fetchSelected, screen,
                 searchTerm, debouncedSearch, timerPending, currentPage, perPage,
                 month, typeFilter, sort, activeTab, items, meta, isLoading,
                 isSaving, inflight, puts, nextRid, nPuts, srv, burst>>

\* a status function that would send every status to the generic route
GenericEndpoint(newStatus) == "update-status"

\* PickPack.statusEndpoint: the route of a requested status
statusEndpoint(newStatus) ==
  CASE newStatus = "picking" -> "start-picking"
    [] newStatus = "picked"  -> "complete-picking"
    [] newStatus = "packing" -> "start-packing"
    [] newStatus = "packed"  -> "complete-packing"
    [] OTHER                 -> "update-status"

\* what a failed request carries: a message of the server, or none (network
\* error, timeout)
ServerMessages == {"", "rejected by the server"}

NoBody == [rack_id |-> Null, bin_id |-> Null, received_quantity |-> 0]

\* a state-transition request: its route and body, the order and item the
\* handler closed over, the list query of the handler's fetchOrders, and what
\* the server answers
Put(route, order, item, status, body, ok, message) ==
  [route |-> route, order |-> order, item |-> item, status |-> status,
   body |-> body, q |-> CurrentQuery, sel |-> fetchSelected, ok |-> ok,
   message |-> message]

\* the outcomes of a request: accepted, or failed with or without a message
Outcomes == {<<TRUE, "">>} \cup {<<FALSE, m>> : m \in ServerMessages}

\* PickPack.handleStatusChange(selectedOrder, newStatus) up to the await:
\* setIsSaving(true) and the request, which the server accepts or rejects
StartTransition(ok, message) ==
  /\ screen = "PickPack"
  /\ isModalOpen /\ selectedOrder # NoOrder
  /\ ~isSaving
  /\ nPuts < MaxPuts
  /\ ButtonStatus(screen, activeTab, selectedOrder.status) # ""
  /\ LET new == ButtonStatus(screen, activeTab, selectedOrder.status)
     IN /\ puts' = puts \cup {Put(statusEndpoint(new), selectedOrder, NoItem, new,
                                  NoBody, ok, message)}
        /\ srv' = IF ok THEN [srv EXCEPT ![selectedOrder.id] = new] ELSE srv
  /\ isSaving' = TRUE
  /\ nPuts' = nPuts + 1
  /\ toast' = NoToast
  /\ UNCHANGED <<putVars, actVars, envelope, hookVars, authVars, sideVars, fetchSelected, screen, searchTerm, debouncedSearch, timerPending, currentPage,
                 perPage, month, typeFilter, sort, activeTab, items, meta, isLoading,
                 inflight, nextRid, burst>>

\* Dispatch.handleConfirmDispatch up to the await: without driver or vehicle
\* it raises the notification and returns
ConfirmDispatch(ok, message) ==
  /\ screen = "Dispatch"
  /\ isModalOpen /\ selectedOrder # NoOrder
  /\ ~isSaving
  /\ IF Trim(driverName) = "" \/ Trim(vehicleName) = ""
     THEN /\ toast' = "Please enter driver and vehicle details"
          \* no request is made: there is one such step, whatever the outcome
          /\ ok /\ message = ""
          /\ UNCHANGED <<puts, srv, isSaving, nPuts>>
     ELSE /\ nPuts < MaxPuts
          /\ puts' = puts \cup {Put("dispatch", selectedOrder, NoItem, "dispatched",
                                    NoBody, ok, message)}
          /\ srv' = IF ok THEN [srv EXCEPT ![selectedOrder.id] = "dispatched"] ELSE srv
          /\ isSaving' = TRUE
          /\ nPuts' = nPuts + 1
          /\ toast' = NoToast
  /\ UNCHANGED <<putVars, actVars, envelope, hookVars, authVars, sideVars, fetchSelected, screen, searchTerm, debouncedSearch, timerPending, currentPage,
                 perPage, month, typeFilter, sort, activeTab, items, meta, isLoading,
                 inflight, nextRid, burst>>

\* setOrders(prev => prev.map(o => o.id === id ? { ...o, status } : o))
WithStatus(rows, id, status) ==
  [k \in 1..Len(rows) |-> IF rows[k].id = id THEN [rows[k] EXCEPT !.status = status]
                          ELSE rows[k]]

\* the rows after the immediate local update: no longer those of a response
\* once a row was rewritten
LocallyUpdated(it, id, status) ==
  LET rows == WithStatus(it.rows, id, status)
  IN IF rows = it.rows THEN it ELSE [rid |-> 0, rows |-> rows]

\* a catch branch that would update the display as the try branch does
UpdatedAnyway(it, p) == LocallyUpdated(it, p.order.id, p.status)

\* the rows after the catch branch of a state transition: no setOrders
RowsAfterRejection(it, p) == it

\* toast.error(err.response?.data?.message || fallback)
ErrorToast(message, fallback) == IF message # "" THEN message ELSE fallback

\* after the await, on success: toast, the immediate local update of the list
\* and of the selected order (PickPack) or the dialog closed (Dispatch),
\* fetchOrders() of the render the handler was created in, then finally
TransitionOk(p) ==
  /\ screen \in {"PickPack", "Dispatch"}
  /\ p \in puts /\ p.ok
  /\ puts' = puts \ {p}
  /\ toast' = "transition done"
  /\ items' = LocallyUpdated(items, p.order.id, p.status)
  /\ IF screen = "PickPack"
     THEN /\ selectedOrder' = [p.order EXCEPT !.status = p.status]
          /\ UNCHANGED isModalOpen
     ELSE /\ selectedOrder' = NoOrder
          /\ isModalOpen' = FALSE
  /\ IssueAs(<<p.q>>, p.sel)
  /\ isSaving' = FALSE
  /\ UNCHANGED <<srvRacks, activeItem, racks, bins, selectedRackId, selectedBinId,
                 selectedBy, isLoadingRacks, isLoadingBins, pToast, scans, nScans,
                 lastScan>>
  /\ UNCHANGED <<driverName, vehicleName, srvItems, envelope, hookVars, authVars, sideVars, fetchSelected, screen, searchTerm,
                 debouncedSearch, timerPending, currentPage,
                 perPage, month, typeFilter, sort, activeTab, meta, nPuts, srv, burst>>

\* after the await, on failure: the error toast, then finally
TransitionFail(p) ==
  /\ screen \in {"PickPack", "Dispatch"}
  /\ p \in puts /\ ~p.ok
  /\ puts' = puts \ {p}
  /\ toast' = ErrorToast(p.message, IF screen = "Dispatch" THEN "Failed to dispatch order"
                                    ELSE "Failed to update status")
  /\ items' = RowsAfterRejection(items, p)
  /\ isSaving' = FALSE
  /\ UNCHANGED <<putVars, actVars, envelope, hookVars, authVars, sideVars, fetchSelected, screen, searchTerm, debouncedSearch, timerPending, currentPage,
                 perPage, month, typeFilter, sort, activeTab, meta, isLoading,
                 inflight, nextRid, nPuts, srv, burst>>

\* what the server holds when the screen mounts
InitialOrderStatus(s, id) ==
  CASE s = "PickPack" -> IF id % 4 = 1 THEN "pending" ELSE IF id % 4 = 2 THEN "picked"
                         ELSE IF id % 4 = 3 THEN "picking" ELSE "packing"
    [] s = "Dispatch" -> IF id % 2 = 1 THEN "packed" ELSE "dispatched"
    [] s = "Inbound"  -> IF id % 2 = 1 THEN "verifying" ELSE "pending"
    [] OTHER -> "none"

\* no item of an inbound order has been stored
InitialStock == [o \in InboundOrders |-> [k \in InboundItems |-> "pending"]]

\* no dialog is open
ActIdle ==
  /\ isModalOpen = FALSE
  /\ driverName = ""
  /\ vehicleName = ""
  /\ srvItems = InitialStock

\* no screen uses the usePagination hook
HookIdle == localItems = <<>>

\* a signed-in session with no API call of the auth hook in flight
AuthIdle ==
  /\ storedToken = 0
  /\ storedUser = "user"
  /\ authState = [user |-> "user", token |-> 0, isAuthenticated |-> TRUE,
                  isLoading |-> FALSE, error |-> ""]
  /\ location = "/dashboard"
  /\ unloading = FALSE
  /\ calls = {}
  /\ nCalls = 0
  /\ handled = {}
  /\ revoked = {}

\* no order is checked and no bulk request is out
BulkIdle ==
  /\ selectedIds = {}
  /\ isBulkProcessing = FALSE
  /\ bulks = {}
  /\ nBulks = 0

\* no location is saved for the Login page
NoFrom == "none"

\* the scanner is at its home page
ScanIdle ==
  /\ mode = "HOME"
  /\ scanResult = ""
  /\ scanTimers = {}
  /\ nStarts = 0
  /\ scanToasts = <<>>
  /\ lastToast = ""

\* the request dialog has not been opened; the list shows one unit of each
\* stock record
CartIdle ==
  /\ cart = <<>>
  /\ listedQty = [id \in StockIds |-> 1]

\* '' as a warehouse id and as a rack id
NoWarehouse == 0
NoRack == 0

\* the inbound-application dialog has not been opened
RackIdle ==
  /\ selectedWarehouseId = NoWarehouse
  /\ warehouseRacks = {}
  /\ rackCalls = {}
  /\ nRackCalls = 0
  /\ inboundList = <<>>
  /\ chosenSince = {}
  /\ racksToast = FALSE

MiscIdle == ScanIdle /\ CartIdle /\ RackIdle

SideIdle == BulkIdle /\ navFrom = NoFrom /\ MiscIdle

\* the putaway modal has not been opened
PutawayIdle ==
  /\ selectedOrder = NoOrder
  /\ fetchSelected = NoOrder
  /\ activeItem = NoItem
  /\ racks = <<>>
  /\ bins = <<>>
  /\ selectedRackId = Null
  /\ selectedBinId = Null
  /\ selectedBy = 0
  /\ isLoadingRacks = FALSE
  /\ isLoadingBins = FALSE
  /\ pToast = ""
  /\ scans = {}
  /\ nScans = 0
  /\ lastScan = [op |-> "none", scan |-> 0, pos |-> 0, rack |-> 0, expect |-> Null,
                 failed |-> FALSE, hadFail |-> FALSE]

\* a list screen after its first render and that render's effects: the first
\* request is out and the debounce timer is armed
InitList ==
  /\ screen \in Screens
  /\ searchTerm = ""
  /\ debouncedSearch = ""
  /\ timerPending = HasDebounce(screen)
  /\ currentPage = 1
  /\ perPage = DefaultPerPage(screen)
  /\ month = "2026-11"
  /\ typeFilter = "all"
  /\ sort = NoSort
  /\ activeTab = DefaultTab(screen)
  /\ items = InitialItems
  /\ meta = IF screen = "Reports" THEN ReportsInitialMeta ELSE InitialMeta
  /\ isLoading = TRUE
  /\ isSaving = FALSE
  /\ toast = NoToast
  /\ srv = [id \in 1..TotalAll |-> InitialOrderStatus(screen, id)]
  /\ envelope \in Shapes(screen)
  /\ inflight = {[rid |-> 1,
                  q |-> Query("", 1, DefaultPerPage(screen), "2026-11", "all", NoSort),
                  sel |-> NoOrder,
                  resp |-> Stocked(screen,
                             ServerResponse(screen,
                               Query("", 1, DefaultPerPage(screen), "2026-11", "all", NoSort),
                               [id \in 1..TotalAll |-> InitialOrderStatus(screen, id)],
                               envelope),
                             InitialStock)]}
  /\ puts = {}
  /\ nextRid = 2
  /\ nPuts = 0
  /\ burst = 0

NextList ==
  \/ \E t \in Texts : TypeSearch(t)
  \/ DebounceFire
  \/ \E n \in 1..TotalAll : PageChange(n)
  \/ \E n \in PerPagePicks : PerPageChange(n)
  \/ \E r \in inflight : FetchSuccess(r)
  \/ \E r \in inflight : FetchFail(r)
  \/ \E c \in SortColumns : ToggleSort(c)
  \/ \E m \in Months, tf \in TypeFilters : FilterChange(m, tf)
  \/ Refresh
  \/ \E t \in {"PICKING", "PACKING", "QUEUE", "HISTORY"} : SwitchTab(t)

NextTransition ==
  \/ \E k \in 1..Len(items.rows) : OpenOrder(items.rows[k])
  \/ CloseModal
  \/ \E d, v \in Names : TypeDetails(d, v)
  \/ \E o \in Outcomes : StartTransition(o[1], o[2])
  \/ \E o \in Outcomes : ConfirmDispatch(o[1], o[2])
  \/ \E p \in puts : TransitionOk(p)
  \/ \E p \in puts : TransitionFail(p)

Init == InitList /\ PutawayIdle /\ SideIdle /\ ActIdle /\ HookIdle /\ AuthIdle /\ srvRacks = <<>>

\* the list-synchronisation cycle of the five screens
Spec == Init /\ [][NextList]_vars

\* the same with the state transitions of PickPack and Dispatch
NextOrders == NextList \/ NextTransition

SpecOrders == Init /\ [][NextOrders]_vars

----------------------------------------------------------------------------
(* Inbound: the putaway modal and its auto-placement *)

\* scans one behaviour may start
MaxScans == 2
\* bins a rack answers with
MaxBins == 2

\* the codes of the racks and of the bins of a rack, as their characters, in
\* the order the server lists them
RackCodes == <<(<<"A", "1", "0">>), (<<"A", "2">>)>>

BinCodes == <<(<<"A", "1", "0">>), (<<"A", "2">>), (<<"A", "1">>), (<<"B", "1">>)>>

Digits == {"0", "1", "2", "3", "4", "5", "6", "7", "8", "9"}

DigitValue(c) ==
  CASE c = "0" -> 0 [] c = "1" -> 1 [] c = "2" -> 2 [] c = "3" -> 3 [] c = "4" -> 4
    [] c = "5" -> 5 [] c = "6" -> 6 [] c = "7" -> 7 [] c = "8" -> 8 [] c = "9" -> 9

\* collation rank of a character that is not a digit
LetterRank(c) == CASE c = "A" -> 1 [] c = "B" -> 2 [] OTHER -> 3

RECURSIVE RunEnd(_, _)
\* the last index of the digit run of s that starts at i
RunEnd(s, i) ==
  IF i < Len(s) /\ s[i + 1] \in Digits THEN RunEnd(s, i + 1) ELSE i

RECURSIVE RunValue(_, _, _)
\* the number the digits s[i..e] spell
RunValue(s, i, e) ==
  IF i > e THEN 0 ELSE RunValue(s, i, e - 1) * 10 + DigitValue(s[e])

Sign(x) == IF x < 0 THEN -1 ELSE IF x > 0 THEN 1 ELSE 0

RECURSIVE CompareFrom(_, _, _, _)
\* a.localeCompare(b, undefined, { numeric: true }) from positions i of a, j of b:
\* digit runs compare by value, a digit sorts before a letter
CompareFrom(a, i, b, j) ==
  IF i > Len(a) /\ j > Len(b) THEN 0
  ELSE IF i > Len(a) THEN -1
  ELSE IF j > Len(b) THEN 1
  ELSE IF a[i] \in Digits /\ b[j] \in Digits
       THEN LET ea == RunEnd(a, i)
                eb == RunEnd(b, j)
                d  == RunValue(a, i, ea) - RunValue(b, j, eb)
            IN IF d # 0 THEN Sign(d) ELSE CompareFrom(a, ea + 1, b, eb + 1)
  ELSE IF a[i] \in Digits THEN -1
  ELSE IF b[j] \in Digits THEN 1
  ELSE IF LetterRank(a[i]) # LetterRank(b[j])
       THEN Sign(LetterRank(a[i]) - LetterRank(b[j]))
  ELSE CompareFrom(a, i + 1, b, j + 1)

CharRank(c) == IF c \in Digits THEN DigitValue(c) ELSE 10 + LetterRank(c)

RECURSIVE PlainCompareFrom(_, _, _)
PlainCompareFrom(a, b, i) ==
  IF i > Len(a) /\ i > Len(b) THEN 0
  ELSE IF i > Len(a) THEN -1
  ELSE IF i > Len(b) THEN 1
  ELSE IF CharRank(a[i]) # CharRank(b[i]) THEN Sign(CharRank(a[i]) - CharRank(b[i]))
  ELSE PlainCompareFrom(a, b, i + 1)

\* a comparison without { numeric: true }: character by character
PlainCompare(a, b) == PlainCompareFrom(a, b, 1)

\* (a, b) => a.code.localeCompare(b.code, undefined, { numeric: true })
CodeCompare(a, b) == CompareFrom(a, 1, b, 1)

RECURSIVE InsertByCode(_, _)
\* x put behind every element that does not sort after it
InsertByCode(sorted, x) ==
  IF sorted = <<>> THEN <<x>>
  ELSE LET last == sorted[Len(sorted)]
       IN IF CodeCompare(last.code, x.code) <= 0 THEN Append(sorted, x)
          ELSE Append(InsertByCode(SubSeq(sorted, 1, Len(sorted) - 1), x), last)

RECURSIVE SortByCode(_)
\* [...list].sort(by code): Array.prototype.sort is stable
SortByCode(list) ==
  IF list = <<>> THEN <<>>
  ELSE InsertByCode(SortByCode(SubSeq(list, 1, Len(list) - 1)), list[Len(list)])

\* b.is_occupied ?? false: an absent flag counts as free
Occupied(b) == IF b.is_occupied = "unset" THEN FALSE ELSE b.is_occupied = "yes"

\* a search that would take the first bin whatever its flag
TakeFirst(list, k) == IF k > Len(list) THEN 0 ELSE k

RECURSIVE FindAvailable(_, _)
\* sortedBins.find(b => !(b.is_occupied ?? false)), as an index from k (0: none)
FindAvailable(list, k) ==
  IF k > Len(list) THEN 0
  ELSE IF ~Occupied(list[k]) THEN k ELSE FindAvailable(list, k + 1)

\* what the server answers to GET /racks and GET /racks/{id}/bins
OccupiedFlags == {"yes", "no", "unset"}

\* a warehouse has the first n racks
RackLists ==
  {[k \in 1..n |-> [id |-> k, code |-> RackCodes[k]]] : n \in 0..Len(RackCodes)}

\* the flags of n bins: the server sends the flag of every bin or of none
FlagLists(n) ==
  [1..n -> OccupiedFlags \ {"unset"}] \cup {[k \in 1..n |-> "unset"]}

\* a rack has the first n bins, each occupied or not
BinLists(rackId) ==
  UNION {{[k \in 1..n |-> [id |-> rackId * 10 + k, code |-> BinCodes[k],
                           is_occupied |-> f[k]]]
          : f \in FlagLists(n)}
         : n \in 0..MaxBins}

NoWarning == ""

\* the letters of a code, and the number its digits spell
Letters(code) == SelectSeq(code, LAMBDA c : c \notin Digits)

Number(code) ==
  LET ds == SelectSeq(code, LAMBDA c : c \in Digits)
  IN RunValue(ds, 1, Len(ds))

\* the natural order of two codes made of letters followed by digits
NaturallyBefore(a, b) ==
  \/ PlainCompare(Letters(a), Letters(b)) < 0
  \/ Letters(a) = Letters(b) /\ Number(a) < Number(b)

\* the id of the free bin of an answer that comes first in natural order of
\* the codes (and first in the answer among equal codes); Null without one
FirstFreeNaturally(list) ==
  LET free == {k \in 1..Len(list) : list[k].is_occupied # "yes"}
  IN IF free = {} THEN Null
     ELSE list[CHOOSE k \in free :
                 \A j \in free \ {k} :
                   \/ NaturallyBefore(list[k].code, list[j].code)
                   \/ list[k].code = list[j].code /\ k < j].id

\* what an invocation did last: the step, the rack it was at, the bin the
\* answer should have led to, whether the request failed, and whether a
\* bin request of the invocation had failed before
ScanStep(op, id, pos, rack, list, failed, hadFail) ==
  [op |-> op, scan |-> id, pos |-> pos, rack |-> rack,
   expect |-> FirstFreeNaturally(list), failed |-> failed, hadFail |-> hadFail]

\* the order row of the list is clicked: setSelectedOrder(order)
SelectOrder(o) ==
  /\ screen = "Inbound"
  /\ activeItem = NoItem
  /\ ~isLoading
  /\ o.id \in InboundOrders
  /\ selectedOrder' = o
  /\ lastScan' = ScanStep("select", 0, 0, 0, <<>>, FALSE, FALSE)
  /\ pToast' = NoWarning
  /\ UNCHANGED <<listVars, actVars, hookVars, authVars, sideVars, fetchSelected, srvRacks, activeItem, racks, bins, selectedRackId,
                 selectedBinId, selectedBy,
                 isLoadingRacks, isLoadingBins, scans, nScans>>

\* selectedOrder.items.map(...): the item rows of the detail panel
ItemsShown == IF screen = "Inbound" THEN selectedOrder.items ELSE <<>>

\* openPutawayModal(item) up to the first await
OpenPutawayModal(item) ==
  /\ screen = "Inbound"
  /\ activeItem = NoItem
  /\ selectedOrder # NoOrder
  /\ selectedOrder.status = "verifying"
  /\ item.status # "stored"
  /\ nScans < MaxScans
  /\ activeItem' = item
  /\ selectedRackId' = Null
  /\ selectedBinId' = Null
  /\ selectedBy' = 0
  /\ bins' = <<>>
  /\ racks' = <<>>
  /\ isLoadingRacks' = TRUE
  /\ nScans' = nScans + 1
  /\ scans' = scans \cup {[id |-> nScans + 1, pc |-> "racks", sortedRacks |-> <<>>,
                           i |-> 0, hadFail |-> FALSE]}
  /\ lastScan' = ScanStep("open", nScans + 1, 0, 0, <<>>, FALSE, FALSE)
  /\ pToast' = NoWarning
  /\ UNCHANGED <<listVars, actVars, hookVars, authVars, sideVars, fetchSelected, srvRacks, selectedOrder, isLoadingBins>>

\* the loop has no rack left: setIsLoadingBins(false) and the warning
Exhausted(s) ==
  /\ isLoadingBins' = FALSE
  /\ pToast' = "No available bins found. Please select manually."
  /\ scans' = scans \ {s}

\* the loop awaits the bins of the next rack
Advance(s, sorted, hadFail) ==
  /\ isLoadingBins' = TRUE
  /\ scans' = (scans \ {s}) \cup
              {[id |-> s.id, pc |-> "bins", sortedRacks |-> sorted, i |-> s.i + 1,
                hadFail |-> hadFail]}
  /\ pToast' = NoWarning

\* the racks arrive: they are sorted and shown, and the scan starts
RacksArrive(s) ==
  /\ s \in scans /\ s.pc = "racks"
  /\ \E sorted \in {SortByCode(srvRacks)} :
        /\ racks' = sorted
        /\ isLoadingRacks' = FALSE
        /\ IF sorted = <<>> THEN Exhausted(s) ELSE Advance(s, sorted, FALSE)
  /\ lastScan' = ScanStep("racks", s.id, 0, 0, <<>>, FALSE, FALSE)
  /\ UNCHANGED <<listVars, actVars, hookVars, authVars, sideVars, fetchSelected, srvRacks, selectedOrder, activeItem, bins, selectedRackId,
                 selectedBinId, selectedBy, nScans>>

\* the outer catch: the rack request failed
RacksFail(s) ==
  /\ s \in scans /\ s.pc = "racks"
  /\ pToast' = "Failed to load racks"
  /\ isLoadingRacks' = FALSE
  /\ scans' = scans \ {s}
  /\ lastScan' = ScanStep("racksFail", s.id, 0, 0, <<>>, TRUE, FALSE)
  /\ UNCHANGED <<listVars, actVars, hookVars, authVars, sideVars, fetchSelected, srvRacks, selectedOrder, activeItem, racks, bins, selectedRackId,
                 selectedBinId, selectedBy, isLoadingBins, nScans>>

\* the loop moves on from rack i: to the next rack, or out of the loop
Continue(s, hadFail) ==
  IF s.i = Len(s.sortedRacks) THEN Exhausted(s) ELSE Advance(s, s.sortedRacks, hadFail)

\* the bins of rack i arrive: the first available one is selected and the
\* function returns, or the loop moves on
BinsArrive(s, list) ==
  /\ s \in scans /\ s.pc = "bins"
  /\ \E rack \in {s.sortedRacks[s.i]}, sortedBins \in {SortByCode(list)} :
      \E k \in {FindAvailable(sortedBins, 1)} :
        IF k # 0
        THEN /\ selectedRackId' = rack.id
             /\ bins' = sortedBins
             /\ selectedBinId' = sortedBins[k].id
             /\ selectedBy' = s.id
             /\ isLoadingBins' = FALSE
             /\ scans' = scans \ {s}
             /\ lastScan' = ScanStep("found", s.id, s.i, rack.id, list, FALSE, s.hadFail)
             /\ pToast' = NoWarning
        ELSE /\ Continue(s, s.hadFail)
             /\ lastScan' = ScanStep(IF s.i = Len(s.sortedRacks) THEN "exhausted" ELSE "skip",
                                     s.id, s.i, rack.id, list, FALSE, s.hadFail)
             /\ UNCHANGED <<selectedRackId, bins, selectedBinId, selectedBy>>
  /\ UNCHANGED <<listVars, actVars, hookVars, authVars, sideVars, fetchSelected, srvRacks, selectedOrder, activeItem, racks, isLoadingRacks, nScans>>

\* a loop without the inner try: the failure reaches the outer catch
AbortScan(s) ==
  /\ pToast' = "Failed to load racks"
  /\ scans' = scans \ {s}
  /\ UNCHANGED isLoadingBins

\* catch { continue; }
AfterBinsFailure(s) == Continue(s, TRUE)

\* the inner catch: continue with the next rack
BinsFail(s) ==
  /\ s \in scans /\ s.pc = "bins"
  /\ AfterBinsFailure(s)
  /\ lastScan' = ScanStep(IF s.i = Len(s.sortedRacks) THEN "exhausted" ELSE "skip",
                          s.id, s.i, s.sortedRacks[s.i].id, <<>>, TRUE, TRUE)
  /\ UNCHANGED <<listVars, actVars, hookVars, authVars, sideVars, fetchSelected, srvRacks, selectedOrder, activeItem, racks, bins, selectedRackId,
                 selectedBinId, selectedBy, isLoadingRacks, nScans>>

\* the backdrop, the close button or Cancel: setActiveItem(null)
CancelPutaway ==
  /\ activeItem # NoItem
  /\ activeItem' = NoItem
  /\ lastScan' = ScanStep("cancel", 0, 0, 0, <<>>, FALSE, FALSE)
  /\ pToast' = NoWarning
  /\ UNCHANGED <<listVars, actVars, hookVars, authVars, sideVars, fetchSelected, srvRacks, selectedOrder, racks, bins, selectedRackId,
                 selectedBinId, selectedBy,
                 isLoadingRacks, isLoadingBins, scans, nScans>>

NextPutaway ==
  \/ \E k \in 1..Len(items.rows) : SelectOrder(items.rows[k])
  \/ \E item \in {selectedOrder.items[k] : k \in 1..Len(ItemsShown)} :
       OpenPutawayModal(item)
  \/ \E r \in inflight : FetchSuccess(r)
  \/ \E r \in inflight : FetchFail(r)
  \/ \E s \in scans : RacksArrive(s)
  \/ \E s \in scans : RacksFail(s)
  \/ \E s \in {x \in scans : x.pc = "bins"} :
       \E list \in BinLists(s.sortedRacks[s.i].id) : BinsArrive(s, list)
  \/ \E s \in scans : BinsFail(s)
  \/ CancelPutaway

\* the Start Verification button of the detail panel:
\* handleVerifyStart(selectedOrder.id) up to the await
VerifyStart(ok, message) ==
  /\ screen = "Inbound"
  /\ activeItem = NoItem
  /\ selectedOrder # NoOrder
  /\ selectedOrder.status \in {"pending", "arrived"}
  /\ ~isSaving
  /\ nPuts < MaxPuts
  /\ puts' = puts \cup {Put("verify", selectedOrder, NoItem, "verifying", NoBody,
                            ok, message)}
  /\ srv' = IF ok THEN [srv EXCEPT ![selectedOrder.id] = "verifying"] ELSE srv
  /\ isSaving' = TRUE
  /\ nPuts' = nPuts + 1
  /\ toast' = NoToast
  /\ UNCHANGED <<putVars, actVars, envelope, hookVars, authVars, sideVars, fetchSelected, screen, searchTerm, debouncedSearch,
                 timerPending, currentPage, perPage, month, typeFilter, sort,
                 activeTab, items, meta, isLoading, inflight, nextRid, burst>>

\* handleVerifyStart after the await, on success: the selected order the
\* handler closed over gets status 'verifying', fetchOrders(), then finally
VerifyOk(p) ==
  /\ screen = "Inbound"
  /\ p \in puts /\ p.ok /\ p.route = "verify"
  /\ puts' = puts \ {p}
  /\ toast' = "Verification started. Proceed to putaway items."
  /\ selectedOrder' = [p.order EXCEPT !.status = "verifying"]
  /\ IssueAs(<<p.q>>, p.sel)
  /\ isSaving' = FALSE
  /\ UNCHANGED <<srvRacks, activeItem, racks, bins, selectedRackId, selectedBinId,
                 selectedBy, isLoadingRacks, isLoadingBins, pToast, scans, nScans,
                 lastScan>>
  /\ UNCHANGED <<actVars, envelope, hookVars, authVars, sideVars, fetchSelected, screen, searchTerm, debouncedSearch,
                 timerPending, currentPage, perPage, month, typeFilter, sort,
                 activeTab, items, meta, nPuts, srv, burst>>

\* the racks for which the putaway modal renders an element that calls
\* selectRack: its body is the spinner, the assigned location or the 'No
\* available bins found' text, none of which calls it
RackPickers == {}

\* selectRack(rackId): setSelectedRackId(rackId), setSelectedBinId(null), and
\* fetchBinsForRack starts loading the bins of the rack
SelectRack(rackId) ==
  /\ screen = "Inbound"
  /\ activeItem # NoItem
  /\ rackId \in RackPickers
  /\ selectedRackId' = rackId
  /\ selectedBinId' = Null
  /\ isLoadingBins' = (selectedOrder # NoOrder \/ isLoadingBins)
  /\ pToast' = NoWarning
  /\ UNCHANGED <<listVars, actVars, hookVars, authVars, sideVars, fetchSelected, srvRacks, selectedOrder, activeItem, racks, bins,
                 selectedBy, isLoadingRacks, scans, nScans, lastScan>>

\* a guard that would let the request go with whatever is selected
AlwaysReady(item, order, rackId, binId) == TRUE

\* confirmPutaway: !activeItem || !selectedOrder || !selectedRackId ||
\* !selectedBinId (null and 0 are falsy)
PutawayReady(item, order, rackId, binId) ==
  /\ item # NoItem
  /\ order # NoOrder
  /\ rackId # Null /\ rackId # 0
  /\ binId # Null /\ binId # 0

\* the body of the putaway request
PutawayBody(item, rackId, binId) ==
  [rack_id |-> rackId, bin_id |-> binId, received_quantity |-> item.quantity]

\* what confirmPutaway does before its await, given what is selected: the
\* request it makes (none: an empty set) and the notification it raises
ConfirmStep(item, order, rackId, binId, ok, message) ==
  IF PutawayReady(item, order, rackId, binId)
  THEN [request |-> {Put("putaway", order, item, "stored",
                         PutawayBody(item, rackId, binId), ok, message)},
        toast |-> NoToast, saving |-> TRUE]
  ELSE [request |-> {}, toast |-> "Please select a Rack and Bin", saving |-> FALSE]

\* the Confirm Putaway button is enabled
ConfirmEnabled ==
  /\ activeItem # NoItem
  /\ selectedRackId # Null /\ selectedRackId # 0
  /\ selectedBinId # Null /\ selectedBinId # 0
  /\ ~isSaving /\ ~isLoadingRacks /\ ~isLoadingBins

\* the server stores the item; the order is completed with its last item
Stored(stock, orderId, itemId) == [stock EXCEPT ![orderId][itemId] = "stored"]

AllStored(stock, orderId) == \A k \in InboundItems : stock[orderId][k] = "stored"

\* the Confirm Putaway button: confirmPutaway up to the await
ConfirmPutaway(ok, message) ==
  /\ screen = "Inbound"
  /\ ConfirmEnabled
  /\ nPuts < MaxPuts
  /\ \E step \in {ConfirmStep(activeItem, selectedOrder, selectedRackId,
                              selectedBinId, ok, message)} :
       /\ puts' = puts \cup step.request
       /\ toast' = step.toast
       /\ isSaving' = (isSaving \/ step.saving)
       /\ nPuts' = nPuts + Cardinality(step.request)
       /\ srvItems' = IF ok /\ step.request # {}
                      THEN Stored(srvItems, selectedOrder.id, activeItem.id)
                      ELSE srvItems
       /\ srv' = IF ok /\ step.request # {}
                    /\ AllStored(srvItems', selectedOrder.id)
                 THEN [srv EXCEPT ![selectedOrder.id] = "completed"] ELSE srv
  /\ UNCHANGED <<putVars, isModalOpen, driverName, vehicleName, envelope, hookVars, authVars, sideVars, fetchSelected, screen,
                 searchTerm, debouncedSearch,
                 timerPending, currentPage, perPage, month, typeFilter, sort,
                 activeTab, items, meta, isLoading, inflight, nextRid, burst>>

\* selectedOrder.items.map(i => i.id === activeItem.id
\*   ? { ...i, status: 'stored', ... } : i)
UpdatedItems(its, itemId) ==
  [k \in 1..Len(its) |-> IF its[k].id = itemId THEN [its[k] EXCEPT !.status = "stored"]
                         ELSE its[k]]

\* the selected order after a putaway: its item stored, and the order
\* completed when every item is stored
AfterPutaway(order, itemId) ==
  LET updatedItems == UpdatedItems(order.items, itemId)
      allStored    == \A k \in 1..Len(updatedItems) : updatedItems[k].status = "stored"
  IN [order EXCEPT !.items = updatedItems,
                   !.status = IF allStored THEN "completed" ELSE order.status]

\* confirmPutaway after the await, on success: the selected order the handler
\* closed over is updated, the modal closes, fetchOrders(), then finally
PutawayOk(p) ==
  /\ screen = "Inbound"
  /\ p \in puts /\ p.ok /\ p.route = "putaway"
  /\ puts' = puts \ {p}
  /\ toast' = "Item stored successfully"
  /\ selectedOrder' = AfterPutaway(p.order, p.item.id)
  /\ activeItem' = NoItem
  /\ IssueAs(<<p.q>>, p.sel)
  /\ isSaving' = FALSE
  /\ UNCHANGED <<srvRacks, racks, bins, selectedRackId, selectedBinId,
                 selectedBy, isLoadingRacks, isLoadingBins, pToast, scans, nScans,
                 lastScan>>
  /\ UNCHANGED <<actVars, envelope, hookVars, authVars, sideVars, fetchSelected, screen, searchTerm, debouncedSearch,
                 timerPending, currentPage, perPage, month, typeFilter, sort,
                 activeTab, items, meta, nPuts, srv, burst>>

\* a catch branch that would update the selected order as the try branch does
OrderUpdatedAnyway(order, p) ==
  IF p.route = "putaway" THEN AfterPutaway(p.order, p.item.id)
  ELSE [p.order EXCEPT !.status = "verifying"]

\* the selected order after the catch branch of handleVerifyStart and of
\* confirmPutaway: no setSelectedOrder
OrderAfterRejection(order, p) == order

\* handleVerifyStart / confirmPutaway after the await, on failure: the error
\* toast, then finally
CommitFail(p) ==
  /\ screen = "Inbound"
  /\ p \in puts /\ ~p.ok
  /\ puts' = puts \ {p}
  /\ toast' = ErrorToast(p.message, IF p.route = "putaway" THEN "Failed to putaway item"
                                    ELSE "Failed to start verification")
  /\ selectedOrder' = OrderAfterRejection(selectedOrder, p)
  /\ isSaving' = FALSE
  /\ UNCHANGED <<srvRacks, activeItem, racks, bins, selectedRackId, selectedBinId,
                 selectedBy, isLoadingRacks, isLoadingBins, pToast, scans, nScans,
                 lastScan>>
  /\ UNCHANGED <<actVars, envelope, hookVars, authVars, sideVars, fetchSelected, screen, searchTerm, debouncedSearch,
                 timerPending, currentPage, perPage, month, typeFilter, sort,
                 activeTab, items, meta, isLoading, inflight, nextRid, nPuts, srv,
                 burst>>

NextCommit ==
  \/ \E o \in Outcomes : VerifyStart(o[1], o[2])
  \/ \E p \in puts : VerifyOk(p)
  \/ \E o \in Outcomes : ConfirmPutaway(o[1], o[2])
  \/ \E p \in puts : PutawayOk(p)
  \/ \E p \in puts : CommitFail(p)

\* the Inbound screen with nothing selected
InitPutaway ==
  /\ InitList /\ screen = "Inbound"
  /\ PutawayIdle /\ SideIdle
  /\ ActIdle
  /\ HookIdle
  /\ AuthIdle
  /\ srvRacks \in RackLists

SpecPutaway == InitPutaway /\ [][NextPutaway]_vars

\* the screens that have state transitions
InitActions ==
  /\ InitList /\ screen \in {"Inbound", "PickPack", "Dispatch"}
  /\ PutawayIdle /\ SideIdle
  /\ ActIdle
  /\ HookIdle
  /\ AuthIdle
  /\ srvRacks \in (IF screen = "Inbound" THEN RackLists ELSE {<<>>})

NextActions ==
  \/ NextPutaway
  \/ NextCommit
  \/ NextTransition
  \/ \E t \in {"PICKING", "PACKING", "QUEUE", "HISTORY"} : SwitchTab(t)

\* the state transitions of Inbound, PickPack and Dispatch, with the list
\* fetched at mount and after every transition
SpecActions == InitActions /\ [][NextActions]_vars

----------------------------------------------------------------------------
(* Properties of the list screens *)

\* the requests a step issues, and those it completes
Issued == inflight' \ inflight

Completed == inflight \ inflight'

\* the displayed metadata without the mark of the response it came from
MetaShown(m) == [m EXCEPT !.rid = 0]

\* the debounce timer runs out in this step
TimerFires == timerPending /\ ~timerPending'

\* C1: once the response to the most recently issued request is displayed, a
\* successful response to an earlier request is discarded: it changes neither
\* the displayed rows nor the displayed pagination metadata.
C1_LateResponseDiscarded ==
  [][\A r \in Completed :
       (toast' = NoToast /\ r.rid < nextRid - 1
          /\ items.rid = nextRid - 1 /\ meta.rid = nextRid - 1)
         => (items'.rows = items.rows /\ MetaShown(meta') = MetaShown(meta))]_vars

\* C2: in every state the displayed rows and the displayed pagination
\* metadata come from the same response, or both are the initial values.
C2_SameResponse == items.rid = meta.rid

\* C3: a failed list fetch leaves the displayed rows and the displayed
\* pagination metadata as they were, on every list screen.
C3_FailureKeepsDisplay ==
  [][\A r \in Completed :
       toast' = FetchErrorToast(screen) => (items' = items /\ meta' = meta)]_vars

\* C4: choosing a new page size n sets the request page size to n and the
\* request page number to 1, and the request issued carries per_page = n and
\* page = 1, on every paginated screen.
C4_PageSizeResetsPage ==
  [][perPage' # perPage
       => /\ currentPage' = 1
          /\ \A r \in Issued : r.q.perPage = perPage' /\ r.q.page = 1]_vars

C9_SortCycle ==
  [][sort' # sort
       => /\ \/ sort = NoSort /\ sort'.column \in SortColumns
                /\ sort'.direction = "asc"
             \/ sort.direction = "asc"
                /\ sort' = [column |-> sort.column, direction |-> "desc"]
             \/ sort.direction = "desc" /\ sort' = NoSort
             \/ sort # NoSort /\ sort'.column \in SortColumns \ {sort.column}
                /\ sort'.direction = "asc"
          /\ currentPage' = 1
          /\ \A r \in Issued : r.q.sort = sort' /\ r.q.page = 1]_vars

\* a column has come round to unset: its descending request is still out
C9_Witness ==
  /\ screen = "Reports" /\ sort = NoSort /\ currentPage = 1
  /\ \E r \in inflight : r.q.sort.direction = "desc"

\* C10: when the timer runs out, the pending text becomes the request's
\* search text and the request page number becomes 1; the request issued for
\* the committed text carries page 1.
C10_CommitResetsPage ==
  [][TimerFires
       => /\ debouncedSearch' = searchTerm
          /\ currentPage' = 1
          /\ \A r \in Issued : r.q.search = searchTerm /\ r.q.page = 1]_vars

\* the user was on page 2 when the new text was committed
C10_Witness ==
  /\ ~timerPending /\ debouncedSearch = "a" /\ currentPage = 1
  /\ meta.currentPage = 2
  /\ \E r \in inflight : r.q.search = "a" /\ r.q.page = 1

\* C11: a step that issues a list fetch leaves isLoading true, and a step in
\* which a list fetch completes, with a response or a failure, leaves it
\* false; so isLoading is false whenever no list fetch is outstanding.
C11_LoadingNeverSticks ==
  /\ [](inflight = {} => ~isLoading)
  /\ [][/\ Issued # {} => isLoading'
        /\ Completed # {} => ~isLoading']_vars

\* the only fetch outstanding has failed: the flag is down
C11_Witness ==
  /\ inflight = {} /\ nextRid > 2
  /\ toast = FetchErrorToast(screen)
  /\ ~isLoading

----------------------------------------------------------------------------
(* Properties of the putaway auto-placement *)

\* the place of a rack among the racks of the warehouse in natural order of
\* the codes
NaturalRank(rackId) ==
  1 + Cardinality({k \in 1..Len(srvRacks) :
                     NaturallyBefore(srvRacks[k].code, srvRacks[rackId].code)})

\* the invocation of the last step is still running, at the bins of rack i
ScanningAt(i) ==
  \E s \in scans : s.id = lastScan.scan /\ s.pc = "bins" /\ s.i = i

ScanEnded == \A s \in scans : s.id # lastScan.scan

AtBins == lastScan.op \in {"found", "skip", "exhausted"}

NoBinsWarning == "No available bins found. Please select manually."

C7_SkipFailedRack ==
  /\ (AtBins /\ lastScan.failed)
       => /\ lastScan.op # "found"
          /\ pToast # "Failed to load racks"
          /\ lastScan.pos < Len(srvRacks) => ScanningAt(lastScan.pos + 1)
          /\ lastScan.pos = Len(srvRacks) => (ScanEnded /\ pToast = NoBinsWarning)
  /\ (lastScan.op = "found" /\ lastScan.hadFail)
       => (selectedBinId = lastScan.expect /\ selectedRackId = lastScan.rack)
  /\ pToast = "Failed to load racks" => lastScan.op = "racksFail"

\* the bins of the first rack could not be loaded and a free bin of the
\* second rack is selected
C7_Witness ==
  /\ lastScan.op = "found" /\ lastScan.hadFail /\ lastScan.pos = 2
  /\ selectedRackId = lastScan.rack /\ selectedBinId # Null
  /\ pToast = NoWarning

AllCodes == {RackCodes[k] : k \in 1..Len(RackCodes)} \cup
            {BinCodes[k] : k \in 1..Len(BinCodes)}

\* the codes of a displayed list ascend in natural order
Ascending(list) ==
  \A i, j \in 1..Len(list) :
    i < j => ~NaturallyBefore(list[j].code, list[i].code)

\* C8: rack codes and bin codes are ordered by a comparison in which digit
\* runs compare as numbers: the displayed racks and bins ascend in that
\* order (A2 before A10), and of several free bins the one that comes first
\* in that order is chosen.
C8_NaturalOrder ==
  /\ \A a, b \in AllCodes : (CodeCompare(a, b) < 0) <=> NaturallyBefore(a, b)
  /\ Ascending(racks)
  /\ Ascending(bins)
  /\ lastScan.op = "found" => selectedBinId = lastScan.expect

\* the server lists A10 before A2, both free: A2 is displayed first and chosen
C8_Witness ==
  /\ lastScan.op = "found"
  /\ Len(bins) >= 2
  /\ bins[1].code = <<"A", "2">> /\ bins[2].code = <<"A", "1", "0">>
  /\ bins[1].id > bins[2].id
  /\ bins[1].is_occupied = "no" /\ bins[2].is_occupied = "no"
  /\ selectedBinId = bins[1].id

----------------------------------------------------------------------------
(* Properties of the state transitions *)

\* the state-transition requests a step issues, and those it completes
Sent == puts' \ puts

Answered == puts \ puts'

\* a step of the placement resolver, or the opening of the modal
ResolverStep == scans' # scans \/ nScans' # nScans

\* the values confirmPutaway may find selected: nothing, or what the server
\* gave
ItemChoices == {NoItem} \cup {ItemsOf(InitialStock, 1)[k] : k \in InboundItems}

OrderChoices ==
  {NoOrder, [id |-> 1, status |-> "verifying", items |-> ItemsOf(InitialStock, 1)]}

RackChoices == {Null} \cup {srvRacks[k].id : k \in 1..Len(srvRacks)}

BinChoices == {Null} \cup {r * 10 + k : r \in 1..Len(RackCodes), k \in 1..MaxBins}

\* C12: a putaway request is issued only by a step of confirmPutaway (not by
\* the opening of the modal nor by the resolver), only when an active item, a
\* selected order, a rack and a bin are set, and its body is the selected
\* rack_id and bin_id and the item's expected quantity as received_quantity;
\* with any of the four missing, confirmPutaway makes no request, raises
\* 'Please select a Rack and Bin' and sets nothing.
C12_CommitOnlyOnConfirm ==
  /\ [][\A p \in Sent :
          p.route = "putaway"
            => /\ ~ResolverStep
               /\ activeItem # NoItem /\ selectedOrder # NoOrder
               /\ selectedRackId # Null /\ selectedBinId # Null
               /\ UNCHANGED <<activeItem, selectedOrder, selectedRackId, selectedBinId>>
               /\ p.body = [rack_id |-> selectedRackId, bin_id |-> selectedBinId,
                            received_quantity |-> Quantities[activeItem.id]]
               /\ DOMAIN p.body = {"rack_id", "bin_id", "received_quantity"}]_vars
  /\ [][ResolverStep => Sent = {}]_vars
  /\ [](\A item \in ItemChoices, order \in OrderChoices,
          rackId \in RackChoices, binId \in BinChoices, o \in Outcomes :
          (item = NoItem \/ order = NoOrder \/ rackId = Null \/ binId = Null)
            => ConfirmStep(item, order, rackId, binId, o[1], o[2])
                 = [request |-> {}, toast |-> "Please select a Rack and Bin",
                    saving |-> FALSE])

\* the putaway request for the resolver's suggestion is out
C12_Witness ==
  /\ isSaving /\ activeItem # NoItem
  /\ \E p \in puts :
       /\ p.route = "putaway"
       /\ p.body.rack_id = selectedRackId /\ p.body.bin_id = selectedBinId
       /\ p.body.received_quantity = 8

\* the scan has ended with a suggestion, which the modal shows as the
\* assigned location, and nothing is being saved
SuggestionShown ==
  /\ activeItem # NoItem
  /\ ~isLoadingRacks /\ ~isLoadingBins /\ ~isSaving
  /\ selectedRackId # Null /\ selectedBinId # Null

\* C13: while the modal shows the resolver's suggestion, the user can
\* replace it: with another rack in the warehouse, selectRack can be called
\* for a rack other than the suggested one.
C13_UserCanOverride ==
  (SuggestionShown /\ Len(racks) > 1)
    => \E k \in 1..Len(racks) :
         racks[k].id # selectedRackId /\ ENABLED SelectRack(racks[k].id)

\* C14: when a state-transition request fails, the message of the server is
\* raised as the notification (the fallback text when it sent none), the
\* saving flag goes back to false, and the order list, its metadata, the
\* selected order with its items, the active putaway item and the open
\* dialog are as before.
C14_FailureMutatesNothing ==
  [][\A p \in Answered :
       ~p.ok
         => /\ p.message # "" => toast' = p.message
            /\ toast' # NoToast
            /\ ~isSaving'
            /\ UNCHANGED <<items, meta, selectedOrder, activeItem, isModalOpen,
                           selectedRackId, selectedBinId, activeTab, currentPage>>]_vars

\* the server rejected the start of picking of the order in the dialog
C14_Witness ==
  /\ screen = "PickPack" /\ isModalOpen
  /\ selectedOrder.status = "pending"
  /\ toast = "rejected by the server"
  /\ ~isSaving /\ puts = {} /\ nPuts = 1

\* C16: every request of PickPack.handleStatusChange goes to the route of
\* the status it asks for (picking: start-picking, picked: complete-picking,
\* packing: start-packing, packed: complete-packing), the statuses the
\* dialog asks for are these four, and no request goes to update-status.
C16_DedicatedRoutes ==
  /\ \A p \in puts :
       screen = "PickPack"
         => /\ p.status \in {"picking", "picked", "packing", "packed"}
            /\ p.status = "picking" => p.route = "start-picking"
            /\ p.status = "picked"  => p.route = "complete-picking"
            /\ p.status = "packing" => p.route = "start-packing"
            /\ p.status = "packed"  => p.route = "complete-packing"
            /\ p.route # "update-status"
  /\ \A st \in {"picking", "picked", "packing", "packed"} :
       statusEndpoint(st) # "update-status"

\* the completion of the packing of an order is out
C16_Witness ==
  /\ screen = "PickPack" /\ activeTab = "PACKING"
  /\ \E p \in puts : p.status = "packed" /\ p.route = "complete-packing"

----------------------------------------------------------------------------
(* Properties of the pagination controls *)

\* the pagination controls are on the screen and their buttons react
ControlsLive == ControlsShown /\ ~ControlsLoading /\ ~Covered

\* C17: every page number an enabled button of the pagination controls
\* passes to onPageChange lies between 1 and the last page of the displayed
\* metadata.
C17_ButtonsWithinLastPage ==
  ControlsLive => \A n \in PageButtons : 1 <= n /\ n <= meta.lastPage

\* C20: a click on a page button that passes the page number that is already
\* the request page changes nothing: the request parameters, the displayed
\* rows, the displayed pagination metadata and the loading flag stay as they
\* were, and no request is issued.
C20_SamePageIdempotent ==
  [][\A n \in 1..TotalAll :
       (n = currentPage /\ PageChange(n))
         => /\ UNCHANGED <<currentPage, perPage, debouncedSearch, searchTerm,
                           month, typeFilter, sort, items, meta, isLoading,
                           inflight>>
            /\ Issued = {}]_vars

\* the displayed metadata is behind the request page, and one of the live
\* buttons passes the request page
C20_Witness ==
  /\ ControlsLive
  /\ meta.currentPage # currentPage
  /\ currentPage \in PageButtons
  /\ toast = NoToast

----------------------------------------------------------------------------
(* The usePagination hook: pagination of a local array *)

\* items the local array may hold
MaxItems == 24

\* the initialPerPage argument of the hook (5 when omitted)
InitialPerPages == {5, 10}

\* the local array of n items
LocalArray(n) == [k \in 1..n |-> k]

\* a last page computed without the fallback
CeilOrZero(total, pp) == CeilDiv(total, pp)

\* Math.ceil(total / perPage) || 1: 0 is falsy
lastPageOf(total, pp) ==
  LET c == CeilDiv(total, pp) IN IF c = 0 THEN 1 ELSE c

\* an end index one past the page
OnePast(startIndex, pp) == startIndex + pp + 1

\* const endIndex = startIndex + perPage
endIndexOf(startIndex, pp) == startIndex + pp

\* items.slice(startIndex, endIndex) for 0 <= startIndex <= endIndex
Slice(its, startIndex, endIndex) ==
  LET lo == Min(startIndex, Len(its))
      hi == Min(endIndex, Len(its))
  IN [k \in 1..(hi - lo) |-> its[lo + k]]

\* one render of the hook: what it returns for its array and its two state cells
usePagination(its, page, pp) ==
  LET total      == Len(its)
      lastPage   == lastPageOf(total, pp)
      startIndex == (page - 1) * pp
      endIndex   == endIndexOf(startIndex, pp)
      from       == IF total = 0 THEN Null ELSE startIndex + 1
      to         == IF total = 0 THEN Null ELSE Min(endIndex, total)
  IN [paginatedItems |-> Slice(its, startIndex, endIndex),
      pagination |-> [currentPage |-> page, lastPage |-> lastPage,
                      perPage |-> pp, total |-> total, from |-> from, to |-> to]]

\* the render of a component that shows what the hook returns: meta holds
\* pagination, items holds paginatedItems
Rendered(its, page, pp) ==
  /\ meta' = Tagged(0, usePagination(its, page, pp).pagination)
  /\ items' = [rid |-> 0, rows |-> usePagination(its, page, pp).paginatedItems]

\* the list state a component of the hook does not use
HookFrame ==
  UNCHANGED <<screen, searchTerm, debouncedSearch, timerPending, month,
              typeFilter, sort, activeTab, isLoading, isSaving, toast,
              inflight, puts, nextRid, nPuts, srv, burst, envelope,
              putVars, actVars, authVars, fetchSelected, sideVars>>

\* the effect of the hook has a reset to run: currentPage > lastPage
ResetPending == currentPage > meta.lastPage

\* setCurrentPage(page) and the render it causes
setCurrentPage(page) ==
  /\ ~ResetPending
  /\ page # currentPage
  /\ currentPage' = page
  /\ Rendered(localItems, page, perPage)
  /\ UNCHANGED <<localItems, perPage>>
  /\ HookFrame

\* setPerPage(perPage) and the render it causes
setPerPage(pp) ==
  /\ ~ResetPending
  /\ pp # perPage
  /\ perPage' = pp
  /\ Rendered(localItems, currentPage, pp)
  /\ UNCHANGED <<localItems, currentPage>>
  /\ HookFrame

\* the component is rendered with another array
ItemsChange(n) ==
  /\ ~ResetPending
  /\ n # Len(localItems)
  /\ localItems' = LocalArray(n)
  /\ Rendered(LocalArray(n), currentPage, perPage)
  /\ UNCHANGED <<currentPage, perPage>>
  /\ HookFrame

\* useEffect(() => { if (currentPage > lastPage) setCurrentPage(1); })
ResetEffect ==
  /\ ResetPending
  /\ currentPage' = 1
  /\ Rendered(localItems, 1, perPage)
  /\ UNCHANGED <<localItems, perPage>>
  /\ HookFrame

\* no list screen is mounted: no search, no filter, no request
ListIdle ==
  /\ searchTerm = "" /\ debouncedSearch = "" /\ timerPending = FALSE
  /\ month = "2026-11" /\ typeFilter = "all" /\ sort = NoSort
  /\ activeTab = "none"
  /\ isLoading = FALSE /\ isSaving = FALSE /\ toast = NoToast
  /\ srv = <<>> /\ envelope = "paginated"
  /\ inflight = {} /\ puts = {} /\ nextRid = 1 /\ nPuts = 0 /\ burst = 0

InitPagination ==
  /\ screen = "Local"
  /\ localItems \in {LocalArray(n) : n \in 0..MaxItems}
  /\ currentPage = 1
  /\ perPage \in InitialPerPages
  /\ meta = Tagged(0, usePagination(localItems, 1, perPage).pagination)
  /\ items = [rid |-> 0, rows |-> usePagination(localItems, 1, perPage).paginatedItems]
  /\ ListIdle
  /\ PutawayIdle /\ SideIdle /\ ActIdle /\ AuthIdle
  /\ srvRacks = <<>>

NextPagination ==
  \/ \E page \in 1..(MaxItems \div 5 + 1) : setCurrentPage(page)
  \/ \E pp \in PerPageOptions : setPerPage(pp)
  \/ \E n \in 0..MaxItems : ItemsChange(n)
  \/ ResetEffect

\* a component that paginates a local array with the hook
SpecPagination == InitPagination /\ [][NextPagination]_vars

----------------------------------------------------------------------------
(* Properties of the usePagination hook *)

\* the least c with c * s >= n: the ceiling of n / s
CeilingOf(n, s) == CHOOSE c \in 0..n : c * s >= n /\ (c = 0 \/ (c - 1) * s < n)

\* what the hook is to return over n items at page size s and page p
PaginationLaw(n, s, p, pg) ==
  /\ pg.lastPage = Max(1, CeilingOf(n, s))
  /\ (pg.from = Null) <=> (n = 0)
  /\ (pg.to = Null) <=> (n = 0)
  /\ n # 0 => pg.from = (p - 1) * s + 1 /\ pg.to = Min(p * s, n)

\* C18: over n items with page size s >= 1 and current page p the hook
\* returns lastPage = max(1, ceil(n / s)), from and to null exactly when
\* n = 0, and otherwise from = (p - 1) * s + 1 and to = min(p * s, n); so
\* for the displayed state, and for every render of the hook at any page up
\* to one past the last. n = 23, s = 10 gives lastPage 3 and, at p = 3,
\* from 21 and to 23; n = 0 gives from = to = null and lastPage 1.
C18_PaginationState ==
  /\ perPage >= 1
  /\ PaginationLaw(Len(localItems), perPage, currentPage, meta)
  /\ meta.total = Len(localItems) /\ meta.perPage = perPage
  /\ meta.currentPage = currentPage
  /\ \A p \in 1..(meta.lastPage + 1) :
       PaginationLaw(Len(localItems), perPage, p,
                     usePagination(localItems, p, perPage).pagination)
  /\ (Len(localItems) = 23 /\ perPage = 10) => meta.lastPage = 3
  /\ (Len(localItems) = 23 /\ perPage = 10 /\ currentPage = 3)
       => meta.from = 21 /\ meta.to = 23
  /\ Len(localItems) = 0
       => meta.from = Null /\ meta.to = Null /\ meta.lastPage = 1

\* 23 items at 10 per page, on page 3
C18_Witness ==
  /\ screen = "Local"
  /\ Len(localItems) = 23 /\ perPage = 10 /\ currentPage = 3
  /\ meta.from = 21 /\ meta.to = 23 /\ meta.lastPage = 3

\* C19: for a total > 0, a page size > 0 and a current page in
\* [1, lastPage], the range the hook reports has to - from + 1 <= perPage and
\* to <= total, and the page holds exactly the rows of that range.
C19_RangeWithinPage ==
  (meta.total > 0 /\ perPage > 0 /\ 1 <= currentPage /\ currentPage <= meta.lastPage)
    => /\ meta.to - meta.from + 1 <= perPage
       /\ meta.to <= meta.total
       /\ Len(items.rows) = meta.to - meta.from + 1

\* a full page followed by a shorter last page, which is displayed
C19_Witness ==
  /\ screen = "Local"
  /\ meta.total > perPage /\ currentPage = meta.lastPage
  /\ meta.to = meta.total
  /\ meta.to - meta.from + 1 < perPage

----------------------------------------------------------------------------
(* Authentication: the useAuth hook and the interceptors of apiClient *)

\* API calls one behaviour may issue
MaxCalls == 3

NoToken == Null

NoUser == "none"

\* the state of useAuth after logout or a failed refreshUser
SignedOut == [user |-> NoUser, token |-> NoToken, isAuthenticated |-> FALSE,
              isLoading |-> FALSE, error |-> ""]

\* useState(() => { const { user, token } = getStoredAuth(); ... })
FromStorage(tok, usr) ==
  [user |-> usr, token |-> tok,
   isAuthenticated |-> (tok # NoToken /\ usr # NoUser),
   isLoading |-> FALSE, error |-> ""]

\* what the server may answer: the HTTP status, and for a 200 the success
\* flag of the body
Answers == {[status |-> 200, success |-> TRUE],
            [status |-> 200, success |-> FALSE],
            [status |-> 401, success |-> FALSE],
            [status |-> 500, success |-> FALSE]}

\* error.response?.data?.message || error.message || '...'
FailureMessage(kind) ==
  IF kind = "login" THEN "Login failed" ELSE "Registration failed"

\* the request interceptor: Authorization: Bearer <token> when
\* localStorage holds a token, no header when it holds none
Bearer(tok) == tok

\* apiClient.<method>(...): the call leaves with the header the request
\* interceptor gave it
Send(kind, tok, answer) ==
  /\ nCalls < MaxCalls
  /\ calls' = calls \cup {[id |-> nCalls + 1, kind |-> kind,
                           bearer |-> Bearer(tok), answer |-> answer]}
  /\ nCalls' = nCalls + 1

\* the list screens and the dialogs take no part in authentication
AuthFrame ==
  UNCHANGED <<listVars, putVars, actVars, hookVars, fetchSelected, bulkVars,
              miscVars>>

\* the paths of the route table: the Login page, children of the layout
\* (one of them unknown, served by the '*' route) and the scanner
Paths == {"/login", "/dashboard", "/inventory", "/nowhere", "/scanner"}

\* what a guard renders: its children, the spinner, or a <Navigate>
Children == [view |-> "children", to |-> NoFrom, from |-> NoFrom]
Spinner == [view |-> "spinner", to |-> NoFrom, from |-> NoFrom]

\* a wrapper that renders its children whatever the session
Unguarded(st, loc) == Children

\* RequireAuth at the location loc (no route passes allowedRoles)
RequireAuth(st, loc) ==
  IF st.isLoading THEN Spinner
  ELSE IF ~st.isAuthenticated
       THEN [view |-> "Navigate", to |-> "/login", from |-> loc]
  ELSE Children

\* GuestRoute, with the location.state.from of the current entry
GuestRoute(st, from) ==
  IF st.isLoading THEN Spinner
  ELSE IF st.isAuthenticated
       THEN [view |-> "Navigate",
             to |-> IF from # NoFrom THEN from ELSE "/dashboard",
             from |-> NoFrom]
  ELSE Children

\* the element the route table renders for a path
routes(path, st, from) ==
  IF path = "/login" THEN GuestRoute(st, from) ELSE RequireAuth(st, path)

\* what is on the page
Element == routes(location, authState, navFrom)

\* the Login page is on the page
GuestShown == location = "/login" /\ Element.view = "children"

\* the layout and a screen, or the scanner, are on the page
ProtectedShown == location # "/login" /\ Element.view = "children"

\* login(credentials) up to the await
login(answer) ==
  /\ authState' = [authState EXCEPT !.isLoading = TRUE, !.error = ""]
  /\ Send("login", storedToken, answer)
  /\ UNCHANGED <<storedToken, storedUser, location, navFrom, unloading, handled,
                 revoked>>
  /\ AuthFrame

\* register(data) up to the await
register(answer) ==
  /\ authState' = [authState EXCEPT !.isLoading = TRUE, !.error = ""]
  /\ Send("register", storedToken, answer)
  /\ UNCHANGED <<storedToken, storedUser, location, navFrom, unloading, handled,
                 revoked>>
  /\ AuthFrame

\* logout(), and the navigate('/login') of the layout's button. The request
\* interceptor of the POST runs in a microtask, after clearStoredAuth()
logout(answer) ==
  /\ storedToken' = NoToken
  /\ storedUser' = NoUser
  /\ authState' = SignedOut
  /\ Send("logout", NoToken, answer)
  /\ location' = "/login"
  /\ navFrom' = NoFrom
  /\ UNCHANGED <<unloading, handled, revoked>>
  /\ AuthFrame

\* refreshUser() up to the await
refreshUser(answer) ==
  /\ ~authState.isLoading
  /\ authState' = [authState EXCEPT !.isLoading = TRUE]
  /\ Send("me", storedToken, answer)
  /\ UNCHANGED <<storedToken, storedUser, location, navFrom, unloading, handled,
                 revoked>>
  /\ AuthFrame

\* any other request of a screen behind RequireAuth
DataCall(answer) ==
  /\ ProtectedShown
  /\ Send("data", storedToken, answer)
  /\ UNCHANGED <<storedToken, storedUser, authState, location, navFrom, unloading,
                 handled, revoked>>
  /\ AuthFrame

\* a response interceptor that would leave the token in place
TokenKept(tok) == tok

\* the response interceptor on a 401: localStorage.removeItem('auth_token')
TokenAfter401(tok) == NoToken

\* the answer of a call arrives: the response interceptor, then the
\* continuation of the caller
Respond(c) ==
  LET is401   == c.answer.status = 401
      ok      == c.answer.status = 200 /\ c.answer.success
      tok1    == IF is401 THEN TokenAfter401(storedToken) ELSE storedToken
      usr1    == IF is401 THEN NoUser ELSE storedUser
      signsIn == c.kind \in {"login", "register"} /\ ok
  IN
  /\ c \in calls
  /\ calls' = calls \ {c}
  /\ handled' = handled \cup {c.id}
  /\ revoked' = IF is401
                THEN revoked \cup ({storedToken, c.bearer} \ {NoToken})
                ELSE revoked
  /\ unloading' = (unloading \/ is401)
  /\ location' = IF is401 THEN "/login"
                 ELSE IF c.kind = "login" /\ ok
                      THEN (IF navFrom # NoFrom THEN navFrom ELSE "/dashboard")
                 ELSE location
  /\ navFrom' = IF is401 \/ (c.kind = "login" /\ ok) THEN NoFrom ELSE navFrom
  /\ storedToken' = IF signsIn THEN c.id
                    ELSE IF c.kind = "me" /\ ~ok THEN NoToken
                    ELSE tok1
  /\ storedUser' = IF signsIn \/ (c.kind = "me" /\ ok) THEN "user"
                   ELSE IF c.kind = "me" THEN NoUser
                   ELSE usr1
  /\ authState' =
       CASE signsIn ->
              [user |-> "user", token |-> c.id, isAuthenticated |-> TRUE,
               isLoading |-> FALSE, error |-> ""]
         [] c.kind = "login" /\ ~ok ->
              [authState EXCEPT !.isLoading = FALSE,
                                !.error = FailureMessage("login"),
                                !.isAuthenticated = FALSE]
         [] c.kind = "register" /\ ~ok ->
              [authState EXCEPT !.isLoading = FALSE,
                                !.error = FailureMessage("register")]
         [] c.kind = "me" /\ ok ->
              [authState EXCEPT !.user = "user", !.isLoading = FALSE]
         [] c.kind = "me" /\ ~ok -> SignedOut
         [] OTHER -> authState
  /\ UNCHANGED nCalls
  /\ AuthFrame

\* the document assigned to window.location loads: the calls of the old
\* document are gone, useAuth starts from localStorage, and its mount effect
\* calls refreshUser when a token is stored
Reload(answer) ==
  /\ unloading
  /\ unloading' = FALSE
  /\ IF storedToken # NoToken
     THEN /\ nCalls < MaxCalls
          /\ calls' = {[id |-> nCalls + 1, kind |-> "me",
                        bearer |-> Bearer(storedToken), answer |-> answer]}
          /\ nCalls' = nCalls + 1
          /\ authState' = [FromStorage(storedToken, storedUser)
                             EXCEPT !.isLoading = TRUE]
     ELSE /\ answer.status = 200 /\ answer.success
          /\ calls' = {}
          /\ nCalls' = nCalls
          /\ authState' = FromStorage(storedToken, storedUser)
  /\ navFrom' = NoFrom
  /\ UNCHANGED <<storedToken, storedUser, location, handled, revoked>>
  /\ AuthFrame

\* the application loads, with or without a session in localStorage
InitAuth ==
  /\ storedToken \in {NoToken, 0}
  /\ storedUser = IF storedToken = NoToken THEN NoUser ELSE "user"
  /\ location = IF storedToken = NoToken THEN "/login" ELSE "/dashboard"
  /\ unloading = FALSE
  /\ handled = {}
  /\ revoked = {}
  /\ IF storedToken # NoToken
     THEN /\ \E answer \in Answers :
               calls = {[id |-> 1, kind |-> "me", bearer |-> Bearer(storedToken),
                         answer |-> answer]}
          /\ nCalls = 1
          /\ authState = [FromStorage(storedToken, storedUser)
                            EXCEPT !.isLoading = TRUE]
     ELSE /\ calls = {}
          /\ nCalls = 0
          /\ authState = FromStorage(storedToken, storedUser)
  /\ screen = "none"
  /\ currentPage = 1 /\ perPage = 10
  /\ meta = InitialMeta /\ items = InitialItems
  /\ ListIdle
  /\ PutawayIdle /\ SideIdle /\ ActIdle /\ HookIdle
  /\ srvRacks = <<>>

RouteFrame ==
  UNCHANGED <<listVars, putVars, actVars, hookVars, fetchSelected, bulkVars,
              miscVars, unloading, handled, revoked>>

\* the effect of a rendered <Navigate replace>
Redirect ==
  /\ ~unloading
  /\ Element.view = "Navigate"
  /\ location' = Element.to
  /\ navFrom' = Element.from
  /\ UNCHANGED <<storedToken, storedUser, authState, calls, nCalls>>
  /\ RouteFrame

\* a link of the layout's sidebar: navigate(path)
Visit(path) ==
  /\ ~unloading
  /\ ProtectedShown
  /\ location' = path
  /\ navFrom' = NoFrom
  /\ UNCHANGED <<storedToken, storedUser, authState, calls, nCalls>>
  /\ RouteFrame

\* a URL is opened in the address bar: the document loads at that path,
\* useAuth starts from localStorage
Open(path, answer) ==
  /\ ~unloading
  /\ location' = path
  /\ navFrom' = NoFrom
  /\ IF storedToken # NoToken
     THEN /\ nCalls < MaxCalls
          /\ calls' = {[id |-> nCalls + 1, kind |-> "me",
                        bearer |-> Bearer(storedToken), answer |-> answer]}
          /\ nCalls' = nCalls + 1
          /\ authState' = [FromStorage(storedToken, storedUser)
                             EXCEPT !.isLoading = TRUE]
     ELSE /\ answer.status = 200 /\ answer.success
          /\ calls' = {}
          /\ nCalls' = nCalls
          /\ authState' = FromStorage(storedToken, storedUser)
  /\ UNCHANGED <<storedToken, storedUser>>
  /\ RouteFrame

\* the form of the Login page is submitted
SubmitLogin(answer) == GuestShown /\ login(answer)

\* the form of the registration page is submitted
SubmitRegister(answer) == GuestShown /\ register(answer)

\* the logout button of the layout is pressed
PressLogout(answer) == ProtectedShown /\ logout(answer)

NextAuth ==
  \/ \E answer \in Answers : SubmitLogin(answer)
  \/ \E answer \in Answers : SubmitRegister(answer)
  \/ \E answer \in Answers : PressLogout(answer)
  \/ \E answer \in Answers : refreshUser(answer)
  \/ \E answer \in Answers : DataCall(answer)
  \/ \E c \in calls : Respond(c)
  \/ \E answer \in Answers : Reload(answer)
  \/ Redirect
  \/ \E path \in Paths \ {"/login"} : Visit(path)
  \/ \E path \in Paths, answer \in Answers : Open(path, answer)

\* sessions: sign-in, sign-out, API calls and their answers
SpecAuth == InitAuth /\ [][NextAuth]_vars

----------------------------------------------------------------------------
(* Properties of the authentication *)

\* the calls whose 401 answer is processed in this step
Processed401 == {c \in calls : c.id \in handled' \ handled /\ c.answer.status = 401}

\* C15: whenever the 401 answer of any API call is processed, the stored
\* token and the stored user are both removed and the page is sent to
\* /login; and no call issued after a 401 has been processed carries a token
\* that 401 invalidated (the token stored then, the token the call carried),
\* nor is such a token ever stored again.
C15_Unauthorized ==
  /\ [][Processed401 # {}
          => /\ storedToken' = NoToken
             /\ storedUser' = NoUser
             /\ location' = "/login"
             /\ unloading']_vars
  /\ [][\A c \in calls' \ calls : c.bearer \notin revoked']_vars
  /\ [](storedToken \notin revoked)

\* after the 401 of a call invalidated the token of the session, the user
\* has signed in again and a request with the new token is out
C15_Witness ==
  /\ 0 \in revoked
  /\ storedToken \notin {NoToken, 0}
  /\ \E c \in calls : c.kind = "data" /\ c.bearer = storedToken

----------------------------------------------------------------------------
(* Inbound: the order list, the selection and the refresh after a transition *)

InitInbound ==
  /\ InitList /\ screen = "Inbound"
  /\ PutawayIdle /\ SideIdle
  /\ ActIdle
  /\ HookIdle
  /\ AuthIdle
  /\ srvRacks = <<>>

NextInbound ==
  \/ \E k \in 1..Len(items.rows) : SelectOrder(items.rows[k])
  \/ \E n \in 1..TotalAll : PageChange(n)
  \/ \E n \in PerPagePicks : PerPageChange(n)
  \/ \E r \in inflight : FetchSuccess(r)
  \/ \E r \in inflight : FetchFail(r)
  \/ \E o \in Outcomes : VerifyStart(o[1], o[2])
  \/ \E p \in puts : VerifyOk(p)
  \/ \E p \in puts : CommitFail(p)

\* Inbound: paging through the orders, selecting one, starting its verification
SpecInbound == InitInbound /\ [][NextInbound]_vars

\* C21: on Inbound, the application of a successful list response never
\* changes which order id is selected, and when the selected order's id is in
\* the returned list the selected order becomes the copy of the list.
C21_SelectionInSync ==
  [][\A r \in Completed :
       (screen = "Inbound" /\ items'.rid = r.rid)
         => /\ selectedOrder'.id = selectedOrder.id
            /\ \A k \in 1..Len(items'.rows) :
                 items'.rows[k].id = selectedOrder.id
                   => selectedOrder' = items'.rows[k]]_vars

----------------------------------------------------------------------------
(* Properties of overlapping list requests *)

\* C22: on a list screen the loading flag is set in every state in which a
\* list request of the screen is still outstanding.
C22_LoadingWhileOutstanding == inflight # {} => isLoading

----------------------------------------------------------------------------
(* PickPack: bulk selection and the bulk start of picking *)

\* bulk requests one behaviour may issue
MaxBulks == 1

\* orders.filter(o => o.status === 'pending')
pendingPickOrders == SelectSeq(items.rows, LAMBDA o : o.status = "pending")

RowIds(rows) == {rows[k].id : k \in 1..Len(rows)}

\* pendingPickOrders.length > 0 && pendingPickOrders.every(o => selectedIds.has(o.id))
allPendingSelected ==
  Len(pendingPickOrders) > 0 /\ RowIds(pendingPickOrders) \subseteq selectedIds

\* what the bulk selection leaves alone beside the list state
BulkFrame ==
  UNCHANGED <<putVars, actVars, hookVars, authVars, fetchSelected, routeVars, miscVars>>

\* the checkbox of a row: shown on the PICKING tab for pending orders
toggleSelect(id) ==
  /\ screen = "PickPack" /\ activeTab = "PICKING"
  /\ ListShown /\ ~Covered
  /\ \E k \in 1..Len(FilteredRows) :
       FilteredRows[k].id = id /\ FilteredRows[k].status = "pending"
  /\ selectedIds' = IF id \in selectedIds THEN selectedIds \ {id}
                    ELSE selectedIds \cup {id}
  /\ UNCHANGED <<listVars, isBulkProcessing, bulks, nBulks>>
  /\ BulkFrame

\* the 'Select all pending' button
toggleSelectAll ==
  /\ screen = "PickPack" /\ activeTab = "PICKING"
  /\ Len(pendingPickOrders) > 0
  /\ ~Covered
  /\ selectedIds' = IF allPendingSelected THEN {} ELSE RowIds(pendingPickOrders)
  /\ UNCHANGED <<listVars, isBulkProcessing, bulks, nBulks>>
  /\ BulkFrame

\* the Clear button of the bulk action bar
ClearSelection ==
  /\ screen = "PickPack"
  /\ selectedIds # {}
  /\ ~Covered
  /\ selectedIds' = {}
  /\ UNCHANGED <<listVars, isBulkProcessing, bulks, nBulks>>
  /\ BulkFrame

\* const selected = orders.filter(o => selectedIds.has(o.id))
SelectedOrders(rows, ids) == SelectSeq(rows, LAMBDA o : o.id \in ids)

\* handleBulkStartPicking up to the await: nothing when no order of the list
\* is selected, else setIsBulkProcessing(true) and the POST with dispatch_ids
handleBulkStartPicking(ok, message) ==
  /\ screen = "PickPack"
  /\ selectedIds # {}
  /\ ~isBulkProcessing
  /\ ~Covered
  /\ nBulks < MaxBulks
  /\ LET selected == SelectedOrders(items.rows, selectedIds)
     IN /\ Len(selected) > 0
        /\ bulks' = bulks \cup
             {[dispatch_ids |-> [k \in 1..Len(selected) |-> selected[k].id],
               sent |-> selected, q |-> CurrentQuery, sel |-> fetchSelected,
               ok |-> ok, message |-> message]}
        /\ srv' = IF ok
                  THEN [id \in DOMAIN srv |->
                          IF id \in RowIds(selected) /\ srv[id] = "pending"
                          THEN "picking" ELSE srv[id]]
                  ELSE srv
  /\ isBulkProcessing' = TRUE
  /\ nBulks' = nBulks + 1
  /\ toast' = NoToast
  /\ UNCHANGED <<screen, searchTerm, debouncedSearch, timerPending, currentPage,
                 perPage, month, typeFilter, sort, activeTab, items, meta,
                 isLoading, isSaving, inflight, puts, nextRid, nPuts, burst,
                 envelope, selectedIds>>
  /\ BulkFrame

\* after the await, on success: the toast, setSelectedIds(new Set()),
\* fetchOrders(), then finally
BulkOk(b) ==
  /\ b \in bulks /\ b.ok
  /\ bulks' = bulks \ {b}
  /\ toast' = "Picking started & PDF exported"
  /\ selectedIds' = {}
  /\ IssueAs(<<b.q>>, b.sel)
  /\ isBulkProcessing' = FALSE
  /\ UNCHANGED <<screen, searchTerm, debouncedSearch, timerPending, currentPage,
                 perPage, month, typeFilter, sort, activeTab, items, meta,
                 isSaving, puts, nPuts, srv, burst, envelope, nBulks>>
  /\ BulkFrame

\* after the await, on failure: the error toast, then finally
BulkFail(b) ==
  /\ b \in bulks /\ ~b.ok
  /\ bulks' = bulks \ {b}
  /\ toast' = ErrorToast(b.message, "Bulk start picking failed")
  /\ isBulkProcessing' = FALSE
  /\ UNCHANGED <<screen, searchTerm, debouncedSearch, timerPending, currentPage,
                 perPage, month, typeFilter, sort, activeTab, items, meta,
                 isLoading, isSaving, inflight, puts, nextRid, nPuts, srv, burst,
                 envelope, selectedIds, nBulks>>
  /\ BulkFrame

InitBulk ==
  /\ InitList /\ screen = "PickPack"
  /\ PutawayIdle /\ SideIdle
  /\ ActIdle
  /\ HookIdle
  /\ AuthIdle
  /\ srvRacks = <<>>

NextBulk ==
  \/ \E id \in 1..TotalAll : toggleSelect(id)
  \/ toggleSelectAll
  \/ ClearSelection
  \/ \E o \in Outcomes : handleBulkStartPicking(o[1], o[2])
  \/ \E b \in bulks : BulkOk(b)
  \/ \E b \in bulks : BulkFail(b)
  \/ \E k \in 1..Len(items.rows) : OpenOrder(items.rows[k])
  \/ CloseModal
  \/ \E o \in Outcomes : StartTransition(o[1], o[2])
  \/ \E p \in puts : TransitionOk(p)
  \/ \E p \in puts : TransitionFail(p)
  \/ \E r \in inflight : FetchSuccess(r)
  \/ \E r \in inflight : FetchFail(r)
  \/ \E n \in 1..TotalAll : PageChange(n)

\* PickPack: checking orders, changing the status of single orders, paging,
\* and the bulk start of picking
SpecBulk == InitBulk /\ [][NextBulk]_vars

\* C23: every id that handleBulkStartPicking sends in dispatch_ids belongs to
\* an order of the current list whose status is 'pending' when it is sent.
C23_BulkPendingOnly ==
  [][\A b \in bulks' \ bulks :
       \A i \in 1..Len(b.dispatch_ids) :
         \E k \in 1..Len(items.rows) :
           /\ items.rows[k].id = b.dispatch_ids[i]
           /\ items.rows[k].status = "pending"]_vars

----------------------------------------------------------------------------
(* Properties of the filters of Reports and of the debounce timer *)

\* C24: in Reports a change of the month or of the type filter sets the
\* request page to 1, and the one request it issues for the new filter
\* carries page 1: none carries the new filter with another page.
C24_FilterResetsPage ==
  [][(screen = "Reports" /\ (month' # month \/ typeFilter' # typeFilter))
       => /\ currentPage' = 1
          /\ \E r \in Issued : Issued = {r}
          /\ \A r \in Issued :
               r.q.month = month' /\ r.q.type = typeFilter' /\ r.q.page = 1]_vars

\* C25: when the debounce timer runs out without changing the committed
\* search text, the request page stays what the user selected, and no request
\* is issued.
C25_TimerKeepsPage ==
  [][(TimerFires /\ debouncedSearch' = debouncedSearch)
       => (currentPage' = currentPage /\ Issued = {})]_vars

----------------------------------------------------------------------------
(* The useAuth hook called by any component, in any order *)

NextAuthHook ==
  \/ \E answer \in Answers : login(answer)
  \/ \E answer \in Answers : register(answer)
  \/ \E answer \in Answers : logout(answer)
  \/ \E answer \in Answers : refreshUser(answer)
  \/ \E c \in calls : Respond(c)

SpecAuthHook == InitAuth /\ [][NextAuthHook]_vars

\* a refreshUser whose request failed or whose answer had no success flag
\* is completed in this step
RefreshFailed ==
  \E c \in calls :
    /\ c.id \in handled' \ handled
    /\ c.kind = "me"
    /\ ~(c.answer.status = 200 /\ c.answer.success)

\* logout is called in this step
LoggedOut == \E c \in calls' \ calls : c.kind = "logout"

\* C29: after any sequence of login, register, logout and refreshUser calls,
\* isAuthenticated is true exactly when user and token are both non-null; and
\* after logout or a failed refreshUser, user and token are null,
\* isAuthenticated is false and the stored token and user are removed.
C29_AuthStateConsistent ==
  /\ [](authState.isAuthenticated
          <=> (authState.user # NoUser /\ authState.token # NoToken))
  /\ [][(LoggedOut \/ RefreshFailed)
          => /\ authState'.user = NoUser /\ authState'.token = NoToken
             /\ ~authState'.isAuthenticated
             /\ storedToken' = NoToken /\ storedUser' = NoUser]_vars

----------------------------------------------------------------------------
(* Properties of the router *)

\* C28: RequireAuth renders its children only when the auth check is not
\* loading and the user is authenticated; whenever the user is not
\* authenticated and not loading it redirects to /login with the attempted
\* location saved; every route except /login is wrapped by it, so no
\* protected screen is on the page for an unauthenticated user.
C28_ProtectedOnlyWhenAuthenticated ==
  /\ [](\A path \in Paths \ {"/login"} :
          LET e == routes(path, authState, navFrom) IN
          /\ e.view = "children"
               => ~authState.isLoading /\ authState.isAuthenticated
          /\ ~authState.isLoading /\ ~authState.isAuthenticated
               => e = [view |-> "Navigate", to |-> "/login", from |-> path])
  /\ [](location # "/login" /\ Element.view = "children"
          => authState.isAuthenticated)
  /\ [][location # "/login" /\ ~authState.isLoading
          /\ ~authState.isAuthenticated /\ Redirect
          => location' = "/login" /\ navFrom' = location]_vars

\* an unauthenticated visitor opened a protected page and was sent to the
\* Login page with that location saved
C28_Witness ==
  /\ location = "/login"
  /\ navFrom = "/inventory"
  /\ ~authState.isAuthenticated /\ ~authState.isLoading

----------------------------------------------------------------------------
(* MobileScanner *)

ScanFrame ==
  UNCHANGED <<listVars, putVars, actVars, hookVars, authVars, fetchSelected,
              bulkVars, routeVars, cartVars, rackVars>>

\* the 'Scan' button of the home page: setMode('SCANNING') and a timer of
\* 1500 ms
handleScan ==
  /\ mode = "HOME"
  /\ nStarts < MaxStarts
  /\ mode' = "SCANNING"
  /\ nStarts' = nStarts + 1
  /\ scanTimers' = scanTimers \cup {nStarts + 1}
  /\ scanToasts' = Append(scanToasts, 0)
  /\ UNCHANGED <<scanResult, lastToast>>
  /\ ScanFrame

\* the callback of the timer of scan s runs: the timer is never cleared
ScanTimeout(s) ==
  /\ s \in scanTimers
  /\ scanTimers' = scanTimers \ {s}
  /\ scanResult' = "LGT-SPOT-500"
  /\ mode' = "RESULT"
  /\ scanToasts' = [scanToasts EXCEPT ![s] = @ + 1]
  /\ lastToast' = "Barcode Scanned Successfully"
  /\ UNCHANGED nStarts
  /\ ScanFrame

\* 'Cancel' on the camera page: setMode('HOME')
CancelScan ==
  /\ mode = "SCANNING"
  /\ mode' = "HOME"
  /\ UNCHANGED <<scanResult, scanTimers, nStarts, scanToasts, lastToast>>
  /\ ScanFrame

\* 'Cancel' on the RESULT page: setMode('HOME')
CancelResult ==
  /\ mode = "RESULT"
  /\ mode' = "HOME"
  /\ UNCHANGED <<scanResult, scanTimers, nStarts, scanToasts, lastToast>>
  /\ ScanFrame

\* 'Confirm' on the RESULT page: a toast and setMode('HOME')
ConfirmResult ==
  /\ mode = "RESULT"
  /\ mode' = "HOME"
  /\ lastToast' = "Item Confirmed"
  /\ UNCHANGED <<scanResult, scanTimers, nStarts, scanToasts>>
  /\ ScanFrame

\* the scanner page has just been opened by a signed-in user
InitScanner ==
  /\ screen = "none"
  /\ currentPage = 1 /\ perPage = 10
  /\ meta = InitialMeta /\ items = InitialItems
  /\ ListIdle
  /\ PutawayIdle /\ SideIdle /\ ActIdle /\ HookIdle /\ AuthIdle
  /\ srvRacks = <<>>

NextScanner ==
  \/ handleScan
  \/ \E s \in scanTimers : ScanTimeout(s)
  \/ CancelScan
  \/ CancelResult
  \/ ConfirmResult

SpecScanner == InitScanner /\ [][NextScanner]_vars

\* C30: the mode moves only HOME -> SCANNING -> RESULT -> HOME or
\* SCANNING -> HOME; after a cancel the mode stays HOME until a new scan is
\* started, RESULT is entered only from SCANNING, and each started scan
\* produces at most one RESULT and one success notification.
C30_ScannerModes ==
  /\ [][mode' # mode
          => <<mode, mode'>> \in {<<"HOME", "SCANNING">>, <<"SCANNING", "RESULT">>,
                                  <<"RESULT", "HOME">>, <<"SCANNING", "HOME">>}]_vars
  /\ [][mode = "HOME" /\ mode' # "HOME" => handleScan]_vars
  /\ [](\A s \in 1..Len(scanToasts) : scanToasts[s] <= 1)

----------------------------------------------------------------------------
(* ItemMaster: the cart of the dispatch-request dialog *)

CartFrame ==
  UNCHANGED <<listVars, putVars, actVars, hookVars, authVars, fetchSelected,
              bulkVars, routeVars, scanVars, rackVars>>

\* prev.find(c => c.stock.id === stockId): the index of the line, 0 if none
FindLine(prev, stockId) ==
  IF \E k \in 1..Len(prev) : prev[k].id = stockId
  THEN CHOOSE k \in 1..Len(prev) :
         /\ prev[k].id = stockId
         /\ \A j \in 1..(k - 1) : prev[j].id # stockId
  ELSE 0

\* prev.filter(c => c.stock.id !== stockId)
WithoutStock(prev, stockId) == SelectSeq(prev, LAMBDA c : c.id # stockId)

\* prev.map(c => c.stock.id === stockId ? { ...c, quantity: q } : c)
WithQuantity(prev, stockId, q) ==
  [k \in 1..Len(prev) |->
     IF prev[k].id = stockId THEN [prev[k] EXCEPT !.quantity = q] ELSE prev[k]]

\* the updater of addStockToCart for a stock record of the list
AddedToCart(prev, stockId, stockQuantity) ==
  LET k == FindLine(prev, stockId) IN
  IF k # 0
  THEN IF prev[k].quantity >= stockQuantity
       THEN prev
       ELSE WithQuantity(prev, stockId, prev[k].quantity + 1)
  ELSE Append(prev, [id |-> stockId, stockQuantity |-> stockQuantity,
                     quantity |-> 1])

\* the updater of updateCartQuantity
UpdatedCart(prev, stockId, newQty) ==
  LET k == FindLine(prev, stockId) IN
  IF newQty <= 0 THEN WithoutStock(prev, stockId)
  ELSE IF k # 0 /\ newQty > prev[k].stockQuantity
       THEN WithQuantity(prev, stockId, prev[k].stockQuantity)
  ELSE WithQuantity(prev, stockId, newQty)

\* openRequestModal: the cart starts empty
openRequestModal ==
  /\ cart' = <<>>
  /\ UNCHANGED listedQty
  /\ CartFrame

\* the 'Add' / '+1' button of a stock record of the catalog
addStockToCart(stockId) ==
  /\ listedQty[stockId] > 0
  /\ cart' = AddedToCart(cart, stockId, listedQty[stockId])
  /\ UNCHANGED listedQty
  /\ CartFrame

\* the X button of a line
removeFromCart(stockId) ==
  /\ cart' = WithoutStock(cart, stockId)
  /\ UNCHANGED listedQty
  /\ CartFrame

\* the minus and plus buttons of a line
updateCartQuantity(stockId, newQty) ==
  /\ cart' = UpdatedCart(cart, stockId, newQty)
  /\ UNCHANGED listedQty
  /\ CartFrame

\* a list requested before the dialog was opened arrives: setItems with the
\* quantities the server has by then
ItemsArrive(quantities) ==
  /\ listedQty' = quantities
  /\ UNCHANGED cart
  /\ CartFrame

InitCart ==
  /\ screen = "none"
  /\ currentPage = 1 /\ perPage = 10
  /\ meta = InitialMeta /\ items = InitialItems
  /\ ListIdle
  /\ PutawayIdle /\ SideIdle /\ ActIdle /\ HookIdle /\ AuthIdle
  /\ srvRacks = <<>>

NextCart ==
  \/ openRequestModal
  \/ \E stockId \in StockIds : addStockToCart(stockId)
  \/ \E stockId \in StockIds : removeFromCart(stockId)
  \/ \E stockId \in StockIds, newQty \in 0..(MaxQty + 1) :
       updateCartQuantity(stockId, newQty)
  \/ \E quantities \in [StockIds -> 0..MaxQty] : ItemsArrive(quantities)

SpecCart == InitCart /\ [][NextCart]_vars

\* C27: after any sequence of addStockToCart, updateCartQuantity and
\* removeFromCart the cart holds at most one line per stock id and every
\* line's quantity q satisfies 1 <= q <= the quantity of the line's stock
\* record; an operation that would exceed the stock leaves the line at no
\* more than the stock quantity, and one that would drop to 0 or below
\* removes the line.
C27_CartWithinStock ==
  /\ [](\A j, k \in 1..Len(cart) : cart[j].id = cart[k].id => j = k)
  /\ [](\A k \in 1..Len(cart) :
          /\ 1 <= cart[k].quantity
          /\ cart[k].quantity <= cart[k].stockQuantity)
  /\ [][\A stockId \in StockIds :
          updateCartQuantity(stockId, 0) => FindLine(cart', stockId) = 0]_vars

----------------------------------------------------------------------------
(* ItemMaster: the racks of the inbound-application dialog *)

RackFrame ==
  UNCHANGED <<listVars, putVars, actVars, hookVars, authVars, fetchSelected,
              bulkVars, routeVars, scanVars, cartVars>>

Warehouses == 1..MaxWarehouses

\* server side: the racks of a warehouse (two per warehouse)
RacksOf(w) == {2 * w - 1, 2 * w}

\* prev.map(entry => ({ ...entry, rack_id: '' }))
RacksCleared(prev) ==
  [k \in 1..Len(prev) |-> [prev[k] EXCEPT !.rack_id = NoRack]]

\* the effect on [selectedWarehouseId], run for the value w
RacksEffect(w, ok, list) ==
  IF w = NoWarehouse
  THEN /\ warehouseRacks' = {}
       /\ UNCHANGED <<rackCalls, nRackCalls>>
       /\ inboundList' = list
       /\ chosenSince' = {}
  ELSE /\ nRackCalls < MaxRackCalls
       /\ rackCalls' = rackCalls \cup {[id |-> nRackCalls + 1, w |-> w, ok |-> ok]}
       /\ nRackCalls' = nRackCalls + 1
       /\ inboundList' = RacksCleared(list)
       /\ chosenSince' = {}
       /\ UNCHANGED warehouseRacks

\* openInboundModal: the list, the warehouse and the racks are reset; the
\* effect runs when the warehouse changed
openInboundModal ==
  /\ selectedWarehouseId' = NoWarehouse
  /\ racksToast' = FALSE
  /\ IF selectedWarehouseId # NoWarehouse
     THEN RacksEffect(NoWarehouse, TRUE, <<>>)
     ELSE /\ warehouseRacks' = {}
          /\ inboundList' = <<>>
          /\ chosenSince' = {}
          /\ UNCHANGED <<rackCalls, nRackCalls>>
  /\ RackFrame

\* addToInboundList (the quantity of an entry is left out)
addToInboundList(item) ==
  /\ inboundList' =
       IF \E k \in 1..Len(inboundList) : inboundList[k].item = item
       THEN inboundList
       ELSE Append(inboundList, [item |-> item, rack_id |-> NoRack])
  /\ UNCHANGED <<selectedWarehouseId, warehouseRacks, rackCalls, nRackCalls,
                 chosenSince, racksToast>>
  /\ RackFrame

\* the warehouse select: setSelectedWarehouseId, then the effect
SelectWarehouse(w, ok) ==
  /\ w # selectedWarehouseId
  /\ selectedWarehouseId' = w
  /\ RacksEffect(w, ok, inboundList)
  /\ UNCHANGED racksToast
  /\ RackFrame

\* the rack select of an entry, enabled once a warehouse is selected:
\* updateInboundItemField(item, 'rack_id', val)
updateInboundItemField(item, val) ==
  /\ selectedWarehouseId # NoWarehouse
  /\ val \in warehouseRacks
  /\ \E k \in 1..Len(inboundList) : inboundList[k].item = item
  /\ inboundList' =
       [k \in 1..Len(inboundList) |->
          IF inboundList[k].item = item
          THEN [inboundList[k] EXCEPT !.rack_id = val]
          ELSE inboundList[k]]
  /\ chosenSince' = chosenSince \cup {item}
  /\ UNCHANGED <<selectedWarehouseId, warehouseRacks, rackCalls, nRackCalls,
                 racksToast>>
  /\ RackFrame

\* the answer of a GET /racks request: setWarehouseRacks, or a toast
WarehouseRacksArrive(c) ==
  /\ c \in rackCalls
  /\ rackCalls' = rackCalls \ {c}
  /\ warehouseRacks' = IF c.ok THEN RacksOf(c.w) ELSE warehouseRacks
  /\ racksToast' = (racksToast \/ ~c.ok)
  /\ UNCHANGED <<selectedWarehouseId, nRackCalls, inboundList, chosenSince>>
  /\ RackFrame

InitRacks ==
  /\ screen = "none"
  /\ currentPage = 1 /\ perPage = 10
  /\ meta = InitialMeta /\ items = InitialItems
  /\ ListIdle
  /\ PutawayIdle /\ SideIdle /\ ActIdle /\ HookIdle /\ AuthIdle
  /\ srvRacks = <<>>

NextRacks ==
  \/ openInboundModal
  \/ \E item \in 1..MaxEntries : addToInboundList(item)
  \/ \E w \in Warehouses, ok \in BOOLEAN : SelectWarehouse(w, ok)
  \/ \E item \in 1..MaxEntries, val \in UNION {RacksOf(w) : w \in Warehouses} :
       updateInboundItemField(item, val)
  \/ \E c \in rackCalls : WarehouseRacksArrive(c)

SpecRacks == InitRacks /\ [][NextRacks]_vars

\* C26: once all rack requests have completed (none of them failed), the
\* racks offered are those of the currently selected warehouse (none when no
\* warehouse is selected), even when the warehouse was changed while an
\* earlier request was in flight; and every entry's rack_id is either empty
\* or was chosen after the last warehouse change.
C26_RacksOfSelectedWarehouse ==
  /\ [](rackCalls = {} /\ ~racksToast
          => warehouseRacks = IF selectedWarehouseId = NoWarehouse THEN {}
                              ELSE RacksOf(selectedWarehouseId))
  /\ [](\A k \in 1..Len(inboundList) :
          inboundList[k].rack_id = NoRack \/ inboundList[k].item \in chosenSince)

====
